---------------------------- MODULE Spec2Model ----------------------------
(***************************************************************************)
(* A model of the khor daemon (ramzxy/khor): the lock-free note queue      *)
(* between the sequencer and the audio callback, the legacy audio callback *)
(* of audio_synth.cpp, the App lifecycle (start/stop, background loops),   *)
(* and the control surface (config_put, preset_select, audio_set_device).  *)
(* Each part has its own specification over the shared variable list; a   *)
(* specification leaves the variables of the other parts unchanged.        *)
(***************************************************************************)
EXTENDS Integers, Sequences, FiniteSets, TLC

(***************************************************************************)
(* Bounds of the model.                                                    *)
(***************************************************************************)
\* log2 of the ring capacity explored (the program instantiates 2^10)
QCapLog2 == 1
\* number of submit_note calls explored
MaxSubmit == 4
\* width in bits of the ring indices explored (the program uses uint32_t; TLC's
\* integers end at 2^31 - 1, so the wrap is modelled on a narrower unsigned type)
IdxBits == 3

\* number of App::start / App::stop calls the main thread makes
MaxMainCalls == 3
\* number of control-surface operations the request-handler thread runs
MaxOps == 1
\* number of fake-generator threads that can exist at once
MaxFake == 2
\* number of voices of the legacy synth explored (the program has 16)
kMaxVoices == 2
\* number of khor_audio_note_on calls explored
MaxNoteOn == 3

(***************************************************************************)
(* State of the note queue: SpscQueue members, the engine fields around it *)
(* and the locals of the producer and the consumer.                        *)
(***************************************************************************)
VARIABLES
  w_,            \* SpscQueue::w_  (std::atomic<uint32_t>)
  r_,            \* SpscQueue::r_  (std::atomic<uint32_t>)
  buf_,          \* SpscQueue::buf_, slot index -> NoteEvent
  q_drops,       \* AudioEngine::Impl::q_drops
  device_inited, \* AudioEngine::Impl::device_inited
  p_pc, p_w, p_r, p_v,      \* producer position and the locals of push
  c_pc, c_r, c_w, c_out,    \* consumer position and the locals of pop / render
  accepted,      \* history: notes whose push returned true, in order
  popped,        \* history: notes returned by successful pops, in order
  rejected,      \* history: number of pushes that returned false
  nsubmit        \* history: number of submit_note calls so far

qvars == <<w_, r_, buf_, q_drops, device_inited, p_pc, p_w, p_r, p_v,
           c_pc, c_r, c_w, c_out, accepted, popped, rejected, nsubmit>>

(***************************************************************************)
(* State of the App: app/app.h members, the std::thread handles, and the   *)
(* position of each thread (main, one request handler, the three loops).   *)
(***************************************************************************)
VARIABLES
  running_,       \* App::running_
  stop_,          \* App::stop_
  fake_running_,  \* App::fake_running_
  cfg_,           \* App::cfg_
  midi_seq,       \* MidiOut::is_running(): seq != nullptr && port >= 0
  osc_fd,         \* OscClient::is_running(): fd >= 0
  bpf_ok,         \* BpfCollector::Impl::ok
  err_,           \* App::audio_err_, midi_err_, osc_err_, bpf_err_
  music_,         \* std::thread music_: TRUE when joinable
  sampler_,       \* std::thread sampler_: TRUE when joinable
  fake_,          \* std::thread fake_: 0 when not joinable, else the thread it owns
  music_pc, music_cfg,   \* position of music_loop and its config snapshot
  sampler_pc,            \* position of sampler_loop
  fake_pc,               \* position of each fake_loop thread
  m_pc, m_cfg, m_new, m_calls,          \* main thread inside App::start / App::stop
  h_pc, h_prev, h_next, h_new, h_ops,   \* request handler inside an api_* operation
  started,        \* history: App::start has returned at least once
  torn            \* history: App::stop began tearing components down (reset by start)

avars == <<running_, stop_, fake_running_, cfg_, midi_seq, osc_fd, bpf_ok,
           music_, sampler_, fake_, music_pc, music_cfg, sampler_pc, fake_pc,
           m_pc, m_cfg, m_new, m_calls, h_pc, h_prev, h_next, h_new, h_ops,
           started, torn, err_>>

\* a default-constructed KhorConfig (app/config.h).  bpm is kept in tenths, density,
\* smoothing and master gain in hundredths; listen_host, ui_dir, serve_ui, scale and
\* version play no part in what is modelled and are left out
DefaultConfig ==
  [enable_bpf |-> TRUE, enable_audio |-> TRUE, enable_midi |-> FALSE,
   enable_osc |-> FALSE, enable_fake |-> FALSE,
   listen_port |-> 17321,
   bpf_enabled_mask |-> "0xFFFFFFFF", bpf_sample_interval_ms |-> 200,
   bpm |-> 1100, key_midi |-> 62, preset |-> "ambient",
   density |-> 35, smoothing |-> 85,
   audio_backend |-> "", audio_device |-> "",
   audio_sample_rate |-> 48000, audio_master_gain |-> 25,
   midi_port |-> "khor", midi_channel |-> 1,
   osc_host |-> "127.0.0.1", osc_port |-> 9000]

\* the App as constructed and never started, with no thread running
AppParked ==
  /\ running_ = FALSE /\ stop_ = FALSE /\ fake_running_ = FALSE
  /\ cfg_ = DefaultConfig
  /\ midi_seq = FALSE /\ osc_fd = FALSE /\ bpf_ok = FALSE
  /\ music_ = FALSE /\ sampler_ = FALSE /\ fake_ = 0
  /\ music_pc = "none" /\ music_cfg = DefaultConfig /\ sampler_pc = "none"
  /\ fake_pc = [i \in 1..MaxFake |-> "none"]
  /\ m_pc = "idle" /\ m_cfg = DefaultConfig /\ m_new = 0 /\ m_calls = 0
  /\ h_pc = "idle" /\ h_prev = DefaultConfig /\ h_next = DefaultConfig
  /\ h_new = 0 /\ h_ops = 0
  /\ started = FALSE /\ torn = FALSE
  /\ err_ = [audio |-> "", midi |-> "", osc |-> "", bpf |-> ""]

(***************************************************************************)
(* State of the legacy synth of audio_synth.cpp (driven by main.cpp).      *)
(***************************************************************************)
VARIABLES
  g_mu,       \* SynthState::mu: "free" or the thread that holds it
  g_voices,   \* SynthState::voices: active flag and samples_left, in render blocks
  cb_pc,      \* position of the device thread inside audio_cb
  n_pc,       \* position of each caller of khor_audio_note_on
  n_dur,      \* the seconds argument of each caller, in render blocks
  n_calls     \* history: number of khor_audio_note_on calls so far

lvars == <<g_mu, g_voices, cb_pc, n_pc, n_dur, n_calls>>

(***************************************************************************)
(* Live controls of the App and the record of the last control-surface     *)
(* operation.                                                              *)
(***************************************************************************)
VARIABLES
  bpm_,          \* KhorMetrics::bpm (tenths)
  key_midi_,     \* KhorMetrics::key_midi
  density_,      \* App::density_ (hundredths)
  smoothing_,    \* App::smoothing_ (hundredths)
  master_gain,   \* AudioEngine::Impl::master_gain (hundredths)
  bpf_map,       \* the probe's config map: what apply_config / start last wrote
  op,            \* history: the last operation and its argument
  status,        \* history: the HTTP status of the last operation
  pre,           \* history: the live state just before the last operation
  touched,       \* history: components the last operation stopped or (re)started
  nops           \* history: number of operations so far

cvars == <<bpm_, key_midi_, density_, smoothing_, master_gain, bpf_map,
           op, status, pre, touched, nops>>

(***************************************************************************)
(* The three background loops against a clock, in milliseconds.            *)
(***************************************************************************)
VARIABLES
  t_stop,      \* App::stop_ as the timed loops see it
  t_since,     \* milliseconds since stop_ was set
  t_bpm,       \* KhorMetrics::bpm as the timed sequencer reads it (tenths)
  t_pc,        \* position of each timed loop
  t_rem,       \* milliseconds each sleeping loop has left to sleep
  t_exit,      \* history: t_since at which each loop returned, -1 before
  t_sets       \* history: number of bpm changes so far

tvars == <<t_stop, t_since, t_bpm, t_pc, t_rem, t_exit, t_sets>>

(***************************************************************************)
(* The sequencer: MusicEngine of engine/music.h, the Signal01 and the      *)
(* MusicConfig its caller hands to tick, and the frame tick returned.      *)
(* Signals are in hundredths, density in hundredths, velocities, durations *)
(* and synth parameters in millionths.                                     *)
(***************************************************************************)
VARIABLES
  bar_,        \* MusicEngine::bar_
  step_,       \* MusicEngine::step_
  mu_in,       \* the arguments prepared for the next tick
  mu_out,      \* the frame the last tick returned, with its arguments, the cursor
               \* and mu_run it began with
  mu_n,        \* history: ticks since the engine was constructed
  mu_run,      \* history: "zero" while every tick so far had all-zero signals under
               \* ambient and emitted nothing, "noted" once such a tick emitted, else "mixed"
  mu_left,     \* ticks the caller still makes
  mu_ref,      \* history: an earlier tick kept for comparison
  mu_new       \* engines the caller still constructs

mvars == <<bar_, step_, mu_in, mu_out, mu_n, mu_run, mu_left, mu_ref, mu_new>>

(***************************************************************************)
(* The signal conditioner: Signals of engine/signals.h.  A rate is the     *)
(* fraction num / den in lowest terms, dt is in tenths of a second,        *)
(* smoothing in hundredths, a Signal01 component in ten-thousandths.       *)
(***************************************************************************)
VARIABLES
  has_prev_,   \* Signals::has_prev_
  prev_,       \* Signals::prev_
  cur_,        \* Signals::cur_
  rates_,      \* Signals::rates_
  v01_,        \* Signals::v01_
  s_arg,       \* history: the arguments of the last update and prev_ before it
  s_n          \* history: number of update calls so far

svars == <<has_prev_, prev_, cur_, rates_, v01_, s_arg, s_n>>

(***************************************************************************)
(* The process-wide totals: KhorMetrics (include/khor/metrics.h) as the     *)
(* probe reader's callback, fake_loop and sampler_loop use it.  Each total  *)
(* is a std::atomic<uint64_t>; every load of the sampler is one step.       *)
(***************************************************************************)
VARIABLES
  metrics_,    \* App::metrics_: the eight totals
  rb_live,     \* BpfCollector: the poller thread runs
  fk_live,     \* App::fake_running_ is set and the fake_loop thread runs
  sm_pc,       \* sampler_loop: 0 asleep, k before its k-th load
  sm_t,        \* sampler_loop's local Signals::Totals t
  sm_cur,      \* history: the last complete snapshot t
  sm_grew,     \* history: some complete snapshot exceeded the one before it
  sm_n,        \* history: number of complete snapshots
  u_sum,       \* history: per total, the sum the rule of on_event gives for the
               \* records consumed, plus the fake increments
  u_rec,       \* history: number of records on_event was called with
  u_fake,      \* history: number of fake iterations
  u_ctl        \* history: "none", "stopped" once the probe or the App was stopped,
               \* "restarted" once it was started again after that

uvars == <<metrics_, rb_live, fk_live, sm_pc, sm_t, sm_cur, sm_grew, sm_n,
           u_sum, u_rec, u_fake, u_ctl>>

(***************************************************************************)
(* The fan-out of notes to the three sinks: App::api_test_note and the     *)
(* body of App::music_loop after engine.tick (app/app.cpp).                *)
(***************************************************************************)
VARIABLES
  f_en,        \* cfg_.enable_audio, enable_midi, enable_osc
  f_run,       \* AudioEngine / MidiOut / OscClient ::is_running()
  f_pc,        \* music_loop: "idle" between ticks, else the statement it is before
  f_cfg,       \* music_loop's config snapshot cfg (the three enable flags)
  f_frame,     \* music_loop's MusicFrame frame
  f_i,         \* index of the note the loop of line 300 is at
  a_synth,     \* AudioEngine::Impl cutoff01, resonance01, delay_mix01, reverb_mix01
  f_sent,      \* history: per sink, the notes of this tick's frame handed to it so far
  f_due,       \* history: per sink, the notes of this tick's frame that came up while
               \* the sink was enabled in the snapshot and running
  f_applied,   \* history: "no", or "yes" once this tick's synth parameters were stored
  t_call,      \* history: the last api_test_note call: arguments, note, sinks, result
  f_ops        \* history: ticks, test notes and sink operations so far

fvars == <<f_en, f_run, f_pc, f_cfg, f_frame, f_i, a_synth, f_sent, f_due, f_applied,
           t_call, f_ops>>

(***************************************************************************)
(* The MIDI sink: MidiOut and its note-off worker (midi/alsa_seq.cpp).     *)
(***************************************************************************)
VARIABLES
  md_run,      \* MidiOut::is_running(): seq is open and the port exists
  md_offs,     \* Impl::offs, the pending note-offs, each [due, midi]
  md_now,      \* std::chrono::steady_clock::now(), in ms
  md_open,     \* history: per pitch, note-ons sent that no note-off has answered yet
  md_early,    \* history: a note-off was sent before its due time
  md_ops       \* history: send_note, stop and start calls so far

dvars == <<md_run, md_offs, md_now, md_open, md_early, md_ops>>

(***************************************************************************)
(* OSC encoding of a note: osc/encode.h and its copy in osc/osc.cpp.       *)
(***************************************************************************)
VARIABLES
  os_ev,       \* the NoteEvent last encoded
  os_msg,      \* the bytes encode_note / osc_msg_note returned for it
  os_n         \* history: notes encoded so far

ovars == <<os_ev, os_msg, os_n>>

(***************************************************************************)
(* The kernel probe: the per-CPU accumulators, the config map and the ring *)
(* buffer of bpf/khor.bpf.c, read by BpfCollector (bpf/collector.cpp).     *)
(***************************************************************************)
VARIABLES
  kp_cfg,      \* khor_cfg[0]: enabled_mask and sample_interval_ms
  kp_acc,      \* khor_accum[0] of each CPU: last_flush_ns and the acc payload
  kp_now,      \* bpf_ktime_get_ns()
  kp_ring,     \* the records submitted to the events ring and not yet consumed
  kp_out,      \* history: per CPU, the samples submitted from it
  kp_adm,      \* history: per payload field, the sum of the admitted increments
  kp_fails,    \* history: reservations that failed
  kp_last,     \* history: the last tracepoint hit: its number, CPU, whether admitted
  kp_changed   \* history: the config map was rewritten after the probe started

kvars == <<kp_cfg, kp_acc, kp_now, kp_ring, kp_out, kp_adm, kp_fails, kp_last,
           kp_changed>>

(***************************************************************************)
(* The synth voices of the audio engine: one envelope on its own, and the  *)
(* voice bank of AudioEngine::Impl (audio/dsp.h, audio/engine.cpp).        *)
(***************************************************************************)
VARIABLES
  adsr,        \* a dsp::Adsr with its parameters, and the history of its release
  bank,      \* the voices of an AudioEngine, its note queue, and the last intake
  thr,       \* the OSC throttle counters of music_loop and what its last tick sent
  snap,      \* sig_mu_, the signal snapshot it guards, and the two threads that use it
  sink,      \* an OscClient, osc_mu_, a thread sending on it and a thread restarting it
  race         \* cfg_, live atomics and OSC client under two HTTP workers in control operations

zvars == <<adsr, bank, thr, snap, sink, race>>

xvars == <<uvars, fvars, dvars, ovars, kvars, zvars>>

evars == <<mvars, svars, xvars>>

\* the two threads that call khor_audio_note_on in main.cpp
Callers == {"music", "http"}

\* the background loops of the App
Loops == {"sampler", "music", "fake"}

\* the legacy synth with no note playing and nobody inside it
LegacyParked ==
  /\ g_mu = "free"
  /\ g_voices = [i \in 1..kMaxVoices |-> [active |-> FALSE, samples_left |-> 0]]
  /\ cb_pc = "idle"
  /\ n_pc = [t \in Callers |-> "idle"]
  /\ n_dur = [t \in Callers |-> 0]
  /\ n_calls = 0

\* the live state a control-surface operation can change
Live ==
  [cfg |-> cfg_, bpm |-> bpm_, key_midi |-> key_midi_, density |-> density_,
   smoothing |-> smoothing_, master_gain |-> master_gain,
   audio |-> device_inited, midi |-> midi_seq, osc |-> osc_fd, bpf |-> bpf_ok,
   bpf_map |-> bpf_map, fake_running |-> fake_running_, fake |-> fake_]

\* BpfConfig as make_bpf_cfg builds it from a KhorConfig (tgid and cgroup filters
\* are never set by a patch)
make_bpf_cfg(cfg) ==
  [enabled_mask |-> cfg.bpf_enabled_mask,
   sample_interval_ms |-> cfg.bpf_sample_interval_ms]

\* the live controls as constructed, before any operation
CtlParked ==
  /\ bpm_ = DefaultConfig.bpm /\ key_midi_ = DefaultConfig.key_midi
  /\ density_ = DefaultConfig.density /\ smoothing_ = DefaultConfig.smoothing
  /\ master_gain = DefaultConfig.audio_master_gain
  /\ bpf_map = make_bpf_cfg(DefaultConfig)
  /\ op = [name |-> "none", kind |-> "", sec |-> "", key |-> "", val |-> 0]
  /\ status = 0 /\ pre = Live /\ touched = {} /\ nops = 0

\* no timed loop exists
TimeParked ==
  /\ t_stop = FALSE /\ t_since = 0 /\ t_bpm = DefaultConfig.bpm
  /\ t_pc = [l \in Loops |-> "none"]
  /\ t_rem = [l \in Loops |-> 0]
  /\ t_exit = [l \in Loops |-> -1]
  /\ t_sets = 0

\* Signal01{} (signals.h lines 16-23)
ZeroSignal == [exec |-> 0, rx |-> 0, tx |-> 0, csw |-> 0, io |-> 0]

\* MusicConfig{} (music.h lines 12-18); tick never reads bpm after clamping it
DefaultMusicConfig ==
  [key_midi |-> 62, scale |-> "pentatonic_minor", preset |-> "ambient", density |-> 35]

\* SynthParams{} (music.h lines 20-25)
DefaultSynth ==
  [cutoff01 |-> 650000, resonance01 |-> 250000, delay_mix01 |-> 100000,
   reverb_mix01 |-> 150000]

\* no arguments prepared, no frame returned
NoInput == [set |-> FALSE, s |-> ZeroSignal, cfg |-> DefaultMusicConfig]
NoFrame ==
  [set |-> FALSE, s |-> ZeroSignal, cfg |-> DefaultMusicConfig, bar |-> 0, step |-> 0,
   run |-> "zero", notes |-> <<>>, synth |-> DefaultSynth]

\* no sequencer exists
MusicParked ==
  /\ bar_ = 0 /\ step_ = 0
  /\ mu_in = NoInput /\ mu_out = NoFrame /\ mu_ref = NoFrame
  /\ mu_n = 0 /\ mu_run = "zero" /\ mu_left = 0 /\ mu_new = 0

\* the count channels and the byte channels of Signals::Totals
CountChannels == {"exec_total", "sched_switch_total"}
ByteChannels == {"net_rx_bytes_total", "net_tx_bytes_total",
                 "blk_read_bytes_total", "blk_write_bytes_total"}
Channels == CountChannels \cup ByteChannels

\* the total each field of SignalRates is computed from (signals.cpp lines 41-46)
RateSource ==
  [exec_s |-> "exec_total", rx_kbs |-> "net_rx_bytes_total",
   tx_kbs |-> "net_tx_bytes_total", csw_s |-> "sched_switch_total",
   blk_r_kbs |-> "blk_read_bytes_total", blk_w_kbs |-> "blk_write_bytes_total"]

\* Signals::Totals{} and SignalRates{} (signals.h lines 28-35 and 7-14)
ZeroTotals == [c \in Channels |-> 0]
ZeroRates == [r \in DOMAIN RateSource |-> [num |-> 0, den |-> 1]]

NoCall == [cur |-> ZeroTotals, dt |-> 0, smoothing |-> 0, prev |-> ZeroTotals,
           had_prev |-> FALSE, v01 |-> ZeroSignal]

\* a Signals object as constructed
SignalsParked ==
  /\ has_prev_ = FALSE /\ prev_ = ZeroTotals /\ cur_ = ZeroTotals
  /\ rates_ = ZeroRates /\ v01_ = ZeroSignal
  /\ s_arg = NoCall /\ s_n = 0

\* the fields of KhorMetrics in the order on_event adds to them (collector.cpp
\* lines 162-170), and the field of khor_sample_payload each one is fed from
TotalOrder ==
  <<"events_total", "exec_total", "net_rx_bytes_total", "net_tx_bytes_total",
    "sched_switch_total", "blk_read_bytes_total", "blk_write_bytes_total",
    "events_dropped">>
TotalNames == { TotalOrder[k] : k \in 1..8 }
ZeroMetrics == [f \in TotalNames |-> 0]

\* struct khor_sample_payload, all zero (khor.h lines 38-47)
ZeroPayload ==
  [exec_count |-> 0, net_rx_bytes |-> 0, net_tx_bytes |-> 0, sched_switches |-> 0,
   blk_read_bytes |-> 0, blk_write_bytes |-> 0, blk_issue_count |-> 0, lost_events |-> 0]

\* KhorMetrics as constructed, no thread running
MetricsParked ==
  /\ metrics_ = ZeroMetrics /\ rb_live = FALSE /\ fk_live = FALSE
  /\ sm_pc = 0 /\ sm_t = ZeroTotals /\ sm_cur = ZeroTotals /\ sm_grew = FALSE
  /\ sm_n = 0 /\ u_sum = ZeroMetrics /\ u_rec = 0 /\ u_fake = 0 /\ u_ctl = "none"

\* the three sinks, in the order music_loop and api_test_note go through them
Sinks == {"audio", "midi", "osc"}
NoSinks == [k \in Sinks |-> FALSE]
NoNotes == [k \in Sinks |-> <<>>]

\* a float as its sign bit and the other 31 bits of its IEEE 754 binary32 pattern
F32(sign, bits) == [s |-> sign, b |-> bits]

\* a MusicFrame without notes, and no api_test_note call
EmptyFrame == [notes |-> <<>>, synth |-> DefaultSynth]
NoTestNote ==
  [set |-> FALSE, midi |-> 0, vel |-> F32(0, 0), dur |-> F32(0, 0),
   ev |-> [midi |-> 0, velocity |-> F32(0, 0), dur_s |-> F32(0, 0)],
   to |-> {}, ready |-> {}, ok |-> FALSE]

\* no sink enabled or running, music_loop between ticks
FanParked ==
  /\ f_en = NoSinks /\ f_run = NoSinks /\ f_pc = "idle" /\ f_cfg = NoSinks
  /\ f_frame = EmptyFrame /\ f_i = 0 /\ a_synth = DefaultSynth
  /\ f_sent = NoNotes /\ f_due = NoNotes /\ f_applied = "no"
  /\ t_call = NoTestNote /\ f_ops = 0

\* the pitches a note-on can carry here: send_note's clamp of the events explored
MidiPitches == {60, 127}

\* the MIDI sink never started
MidiParked ==
  /\ md_run = FALSE /\ md_offs = <<>> /\ md_now = 0
  /\ md_open = [p \in MidiPitches |-> 0] /\ md_early = FALSE /\ md_ops = 0

\* nothing encoded yet
OscParked ==
  /\ os_ev = [midi |-> 60, velocity |-> F32(0, 0), dur_s |-> F32(0, 0)]
  /\ os_msg = <<>> /\ os_n = 0

\* the CPUs the tracepoints fire on
Cpus == {0, 1}

\* struct khor_counters as the per-CPU array holds it before the first event
ZeroCounters == [last_flush_ns |-> 0, acc |-> ZeroPayload]

\* the probe not loaded
ProbeParked ==
  /\ kp_cfg = [enabled_mask |-> 0, sample_interval_ms |-> 0]
  /\ kp_acc = [c \in Cpus |-> ZeroCounters] /\ kp_now = 0 /\ kp_ring = <<>>
  /\ kp_out = [c \in Cpus |-> <<>>] /\ kp_adm = ZeroPayload /\ kp_fails = 0
  /\ kp_last = [n |-> 0, cpu |-> 0, admitted |-> FALSE] /\ kp_changed = FALSE

\* a dsp::Adsr as constructed (dsp.h lines 10-17), its parameters not yet chosen
AdsrOff ==
  [a_steps |-> 1, d_steps |-> 1, r_steps |-> 1, s_level |-> F32(0, 0),
   stage |-> "Off", value |-> F32(0, 0), release_step |-> F32(0, 0),
   v0 |-> F32(0, 0), ticks |-> 0, op |-> "none", before |-> "Off", notes |-> 0]

\* the envelope of a voice (dsp.h lines 10-17), its times in samples
VoiceEnv ==
  [a_steps |-> 2, d_steps |-> 3, r_steps |-> 2, s_level |-> F32(0, 1057803469),
   stage |-> "Off", value |-> F32(0, 0), release_step |-> F32(0, 0)]

\* a Voice as constructed (engine.cpp lines 90-99)
VoiceIdle == [active |-> FALSE, samples_until_release |-> 0, env |-> VoiceEnv]

\* the voice bank of an AudioEngine and its note queue, nothing rendered yet
BankOff ==
  [voices |-> [i \in 1..kMaxVoices |-> VoiceIdle], q |-> <<>>, notes |-> 0,
   op |-> "none", frames |-> 0, log |-> <<>>, mid |-> [i \in 1..kMaxVoices |-> VoiceIdle]]

\* the OSC part of a sequencer that has not ticked (app.cpp lines 260-261), OSC off
ThrottleOff ==
  [enable_osc |-> FALSE, running |-> FALSE, osc_signal_tick |-> 0,
   osc_metrics_tick |-> 0, on_ticks |-> 0, op |-> "none", was_on |-> FALSE,
   sent |-> <<>>]

\* the signal snapshot of an App (app.h lines 114-117), no thread started; the value
\* of last_v01_ and of last_rates_ is the number of the update that computed it
SnapOff ==
  [mu |-> "free", version |-> 0, last_v01 |-> 0, last_rates |-> 0,
   sampler |-> "idle", music |-> "idle", s01 |-> 0, rates |-> 0,
   used |-> [s01 |-> 0, rates |-> 0], ticked |-> FALSE]

\* an OscClient with no socket (osc.cpp: fd = -1), nobody sending or configuring
SinkOff ==
  [fd |-> -1, open |-> FALSE, mu |-> "free", sender |-> "idle", who |-> "none",
   ctl |-> "idle", restarts |-> 0, bad |-> FALSE]

\* the fields of the config, the live atomics and the OSC client that two control
\* operations meet on, as App::App leaves them (app.cpp lines 30-39); no request
RaceOff ==
  [cfg |-> [bpm |-> 110, density |-> 55, preset |-> "ambient", enable_osc |-> FALSE,
            audio_device |-> ""],
   bpm |-> 110, density |-> 55, osc_running |-> FALSE,
   pc |-> <<"idle", "idle">>, req |-> <<"none", "none">>,
   prev |-> <<"none", "none">>, next |-> <<"none", "none">>]

\* the parts added last, each as constructed, but for the one named
LateParkedBut(part) ==
  /\ (part = "adsr" \/ adsr = AdsrOff)
  /\ (part = "bank" \/ bank = BankOff)
  /\ (part = "thr" \/ thr = ThrottleOff)
  /\ (part = "snap" \/ snap = SnapOff)
  /\ (part = "sink" \/ sink = SinkOff)
  /\ (part = "race" \/ race = RaceOff)

LateParked == LateParkedBut("none")

ExtParked ==
  MetricsParked /\ FanParked /\ MidiParked /\ OscParked /\ ProbeParked /\ LateParked

EngineParked == MusicParked /\ SignalsParked /\ ExtParked

\* what the steps of each part leave alone
notQueue == <<avars, lvars, cvars, tvars, evars>>
notApp == <<lvars, cvars, tvars, evars>>

(***************************************************************************)
(* Note queue: util/spsc_queue.h, AudioEngine::submit_note and the drain   *)
(* loop at the head of AudioEngine::Impl::render.                          *)
(***************************************************************************)
\* unsigned arithmetic of the index type
U32 == 2^IdxBits
\* a difference that forgets the wrap
Sub32Mutant(a, b) == IF a >= b THEN a - b ELSE b - a

Sub32(a, b) == (a - b + U32) % U32
Inc32(a) == (a + 1) % U32

\* the template argument CapacityPow2 (a power of two by the static_assert)
CapacityPow2 == 2^QCapLog2

\* mask_ = CapacityPow2 - 1, so  i & mask_  is  i mod CapacityPow2
Slot(i) == i % CapacityPow2

\* NoteEvent{} as default-constructed: midi 60, velocity 0.7 (percent), dur 0.25 s (ms)
DefaultNote == [midi |-> 60, velocity |-> 70, dur_s |-> 250]

\* the notes the producer submits
NoteSet == { [midi |-> 62, velocity |-> 55, dur_s |-> 120],
             [midi |-> 74, velocity |-> 38, dur_s |-> 350] }

\* w_ = r_ at construction is 0; after U32 - 1 push/pop pairs both are U32 - 1
StartIdx == {0, U32 - 1}

QInit ==
  /\ \E s \in StartIdx : w_ = s /\ r_ = s
  /\ buf_ = [i \in 0..(CapacityPow2 - 1) |-> DefaultNote]
  /\ q_drops = 0
  /\ device_inited = TRUE
  /\ p_pc = "idle" /\ p_w = 0 /\ p_r = 0 /\ p_v = DefaultNote
  /\ c_pc = "idle" /\ c_r = 0 /\ c_w = 0 /\ c_out = DefaultNote
  /\ accepted = <<>> /\ popped = <<>> /\ rejected = 0 /\ nsubmit = 0
  /\ AppParked /\ LegacyParked /\ CtlParked /\ TimeParked /\ EngineParked

\* a full test that is off by one
PushFullMutant(w, r) == Sub32(w, r) > CapacityPow2

\* push line 21: the ring is full
PushFull(w, r) == Sub32(w, r) >= CapacityPow2

\* AudioEngine::submit_note entry: returns at once when the device is not inited
SubmitNote ==
  /\ p_pc = "idle" /\ nsubmit < MaxSubmit
  /\ \E ev \in NoteSet :
       /\ nsubmit' = nsubmit + 1
       /\ IF device_inited
            THEN p_pc' = "load_w" /\ p_v' = ev
            ELSE p_pc' = "idle" /\ p_v' = p_v
  /\ UNCHANGED <<w_, r_, buf_, q_drops, device_inited, p_w, p_r,
                 c_pc, c_r, c_w, c_out, accepted, popped, rejected>>
  /\ UNCHANGED notQueue

\* push line 19: w = w_.load(relaxed)
PushLoadW ==
  /\ p_pc = "load_w"
  /\ p_w' = w_
  /\ p_pc' = "load_r"
  /\ UNCHANGED <<w_, r_, buf_, q_drops, device_inited, p_r, p_v,
                 c_pc, c_r, c_w, c_out, accepted, popped, rejected, nsubmit>>
  /\ UNCHANGED notQueue

\* push lines 20-21: r = r_.load(acquire); if ((w - r) >= CapacityPow2) return false
PushLoadR ==
  /\ p_pc = "load_r"
  /\ p_r' = r_
  /\ IF PushFull(p_w, r_)
       THEN p_pc' = "drop" /\ rejected' = rejected + 1
       ELSE p_pc' = "write_midi" /\ rejected' = rejected
  /\ UNCHANGED <<w_, r_, buf_, q_drops, device_inited, p_w, p_v,
                 c_pc, c_r, c_w, c_out, accepted, popped, nsubmit>>
  /\ UNCHANGED notQueue

\* a push whose w_.store(w + 1) was moved in front of the copy into the slot
PushWriteMidiMutant ==
  /\ p_pc = "write_midi"
  /\ w_' = Inc32(p_w)
  /\ buf_' = [buf_ EXCEPT ![Slot(p_w)].midi = p_v.midi]
  /\ p_pc' = "write_rest"
  /\ UNCHANGED <<r_, q_drops, device_inited, p_w, p_r, p_v,
                 c_pc, c_r, c_w, c_out, accepted, popped, rejected, nsubmit>>
  /\ UNCHANGED notQueue

\* push line 22, first part of the struct copy  buf_[w & mask_] = v
PushWriteMidi ==
  /\ p_pc = "write_midi"
  /\ buf_' = [buf_ EXCEPT ![Slot(p_w)].midi = p_v.midi]
  /\ p_pc' = "write_rest"
  /\ UNCHANGED <<w_, r_, q_drops, device_inited, p_w, p_r, p_v,
                 c_pc, c_r, c_w, c_out, accepted, popped, rejected, nsubmit>>
  /\ UNCHANGED notQueue

\* push line 22, rest of the struct copy
PushWriteRest ==
  /\ p_pc = "write_rest"
  /\ buf_' = [buf_ EXCEPT ![Slot(p_w)].velocity = p_v.velocity,
                          ![Slot(p_w)].dur_s = p_v.dur_s]
  /\ p_pc' = "publish"
  /\ UNCHANGED <<w_, r_, q_drops, device_inited, p_w, p_r, p_v,
                 c_pc, c_r, c_w, c_out, accepted, popped, rejected, nsubmit>>
  /\ UNCHANGED notQueue

\* push lines 23-24: w_.store(w + 1, release); return true
PushPublish ==
  /\ p_pc = "publish"
  /\ w_' = Inc32(p_w)
  /\ accepted' = Append(accepted, p_v)
  /\ p_pc' = "idle"
  /\ UNCHANGED <<r_, buf_, q_drops, device_inited, p_w, p_r, p_v,
                 c_pc, c_r, c_w, c_out, popped, rejected, nsubmit>>
  /\ UNCHANGED notQueue

\* submit_note lines 558-560: push returned false, q_drops.fetch_add(1); return
SubmitDrop ==
  /\ p_pc = "drop"
  /\ q_drops' = q_drops + 1
  /\ p_pc' = "idle"
  /\ UNCHANGED <<w_, r_, buf_, device_inited, p_w, p_r, p_v,
                 c_pc, c_r, c_w, c_out, accepted, popped, rejected, nsubmit>>
  /\ UNCHANGED notQueue

\* the device invokes data_cb -> render; render starts its drain loop
RenderBegin ==
  /\ c_pc = "idle" /\ device_inited
  /\ c_pc' = "load_r"
  /\ UNCHANGED <<w_, r_, buf_, q_drops, device_inited, p_pc, p_w, p_r, p_v,
                 c_r, c_w, c_out, accepted, popped, rejected, nsubmit>>
  /\ UNCHANGED notQueue

\* pop line 29: r = r_.load(relaxed)
PopLoadR ==
  /\ c_pc = "load_r"
  /\ c_r' = r_
  /\ c_pc' = "load_w"
  /\ UNCHANGED <<w_, r_, buf_, q_drops, device_inited, p_pc, p_w, p_r, p_v,
                 c_w, c_out, accepted, popped, rejected, nsubmit>>
  /\ UNCHANGED notQueue

\* pop lines 30-31: w = w_.load(acquire); if (r == w) return false, which ends
\* the drain loop of render (the rest of the block touches no queue state)
PopLoadW ==
  /\ c_pc = "load_w"
  /\ c_w' = w_
  /\ c_pc' = IF c_r = w_ THEN "idle" ELSE "read_midi"
  /\ UNCHANGED <<w_, r_, buf_, q_drops, device_inited, p_pc, p_w, p_r, p_v,
                 c_r, c_out, accepted, popped, rejected, nsubmit>>
  /\ UNCHANGED notQueue

\* pop line 32, first part of the struct copy  *out = buf_[r & mask_]
PopReadMidi ==
  /\ c_pc = "read_midi"
  /\ c_out' = [c_out EXCEPT !.midi = buf_[Slot(c_r)].midi]
  /\ c_pc' = "read_rest"
  /\ UNCHANGED <<w_, r_, buf_, q_drops, device_inited, p_pc, p_w, p_r, p_v,
                 c_r, c_w, accepted, popped, rejected, nsubmit>>
  /\ UNCHANGED notQueue

\* pop line 32, rest of the struct copy
PopReadRest ==
  /\ c_pc = "read_rest"
  /\ c_out' = [c_out EXCEPT !.velocity = buf_[Slot(c_r)].velocity,
                            !.dur_s = buf_[Slot(c_r)].dur_s]
  /\ c_pc' = "commit"
  /\ UNCHANGED <<w_, r_, buf_, q_drops, device_inited, p_pc, p_w, p_r, p_v,
                 c_r, c_w, accepted, popped, rejected, nsubmit>>
  /\ UNCHANGED notQueue

\* pop lines 33-34: r_.store(r + 1, release); return true; render loops to pop again
PopCommit ==
  /\ c_pc = "commit"
  /\ r_' = Inc32(c_r)
  /\ popped' = Append(popped, c_out)
  /\ c_pc' = "load_r"
  /\ UNCHANGED <<w_, buf_, q_drops, device_inited, p_pc, p_w, p_r, p_v,
                 c_r, c_w, c_out, accepted, rejected, nsubmit>>
  /\ UNCHANGED notQueue

\* AudioEngine::stop / start seen from the queue: stop_device() returns only once no
\* callback runs (ma_device_uninit), start_device() sets device_inited; q is not reset
DeviceToggle ==
  /\ c_pc = "idle" /\ p_pc = "idle"
  /\ device_inited' = ~device_inited
  /\ UNCHANGED <<w_, r_, buf_, q_drops, p_pc, p_w, p_r, p_v,
                 c_pc, c_r, c_w, c_out, accepted, popped, rejected, nsubmit>>
  /\ UNCHANGED notQueue

QNext ==
  \/ SubmitNote \/ PushLoadW \/ PushLoadR \/ PushWriteMidi \/ PushWriteRest
  \/ PushPublish \/ SubmitDrop
  \/ RenderBegin \/ PopLoadR \/ PopLoadW \/ PopReadMidi \/ PopReadRest \/ PopCommit
  \/ DeviceToggle

vars == <<qvars, avars, lvars, cvars, tvars, evars>>

SpecQueue == QInit /\ [][QNext]_vars

(***************************************************************************)
(* Claims about the note queue, checked under SpecQueue.                   *)
(***************************************************************************)
IsPrefix(s, t) == Len(s) <= Len(t) /\ \A i \in 1..Len(s) : s[i] = t[i]

\* C1: with one producer and one consumer, under every interleaving, the notes
\* returned by successful pops are a prefix of the notes whose push returned
\* true, in the same order: none lost, duplicated, reordered or read half-written.
C1_PopsArePrefixOfAccepted == IsPrefix(popped, accepted)

\* C1 witness: two notes were popped and a push and a pop are both in the middle
\* of their struct copy.
C1_Witness ==
  Len(popped) >= 2 /\ p_pc = "write_rest" /\ c_pc = "read_rest"

\* C2: saturation. Occupancy never exceeds the capacity; a push writes a slot only
\* when that slot holds no unread note; a push is rejected only on a full ring;
\* q_drops counts exactly the rejected pushes once submit_note has returned; and
\* what the consumer popped are accepted notes, uncorrupted and in order.
C2_SaturationDropsAndCounts ==
  /\ Sub32(w_, r_) <= CapacityPow2
  /\ (p_pc \in {"write_midi", "write_rest", "publish"} => Sub32(w_, r_) < CapacityPow2)
  /\ (p_pc = "drop" => Sub32(p_w, p_r) >= CapacityPow2 /\ rejected = q_drops + 1)
  /\ (p_pc # "drop" => rejected = q_drops)
  /\ IsPrefix(popped, accepted)
  /\ \A i \in 1..Len(popped) : popped[i] \in NoteSet

\* C2 witness: the ring was full twice, two notes were dropped and counted, and
\* the consumer has since popped an accepted note.
C2_Witness ==
  q_drops >= 2 /\ p_pc = "idle" /\ Len(accepted) = CapacityPow2 /\ Len(popped) >= 1

\* C40: across the wrap of the indices the ring stays what it is before it: the
\* unread notes number (w - r) mod 2^IdxBits and never more than the capacity,
\* they lie in the slots r, r + 1, ... taken modulo the capacity, in the order
\* they were accepted, a push is refused only when the indices it read were a
\* capacity apart and writes only when fewer notes are unread, a pop goes on to
\* read only when a note is unread, and the pops are a prefix of the pushes
C40_RingAcrossWrap ==
  /\ Len(accepted) - Len(popped) = (w_ - r_ + U32) % U32
  /\ (w_ - r_ + U32) % U32 <= CapacityPow2
  /\ p_pc = "drop" => (p_w - p_r + U32) % U32 = CapacityPow2
  /\ p_pc \in {"write_midi", "write_rest", "publish"} =>
       Len(accepted) - Len(popped) < CapacityPow2
  /\ \A k \in 1..(Len(accepted) - Len(popped)) :
       buf_[((r_ + k - 1) % U32) % CapacityPow2] = accepted[Len(popped) + k]
  /\ c_pc \in {"read_midi", "read_rest", "commit"} =>
       (c_r = r_ /\ c_r # c_w /\ Len(popped) < Len(accepted))
  /\ IsPrefix(popped, accepted)

\* C40 witness: the write index has wrapped and the read index has not, the ring is
\* full across the wrap, and the consumer is reading the oldest note
C40_Witness ==
  /\ w_ < r_ /\ (w_ - r_ + U32) % U32 = CapacityPow2
  /\ c_pc = "read_rest" /\ Len(accepted) = CapacityPow2

(***************************************************************************)
(* App lifecycle: App::start, App::stop, the three background loops, and   *)
(* the control-surface operations api_test_note and api_put_config running *)
(* on a request-handler thread.  device_inited is the audio engine's       *)
(* running state (AudioEngine::is_running).  The request handler serves    *)
(* operations once App::start has returned.                                *)
(***************************************************************************)
\* the queue variables an App step leaves alone (all but device_inited)
qrest == <<w_, r_, buf_, q_drops, p_pc, p_w, p_r, p_v,
           c_pc, c_r, c_w, c_out, accepted, popped, rejected, nsubmit>>

\* the note queue as constructed, with nobody inside push or pop
QParked ==
  /\ w_ = 0 /\ r_ = 0
  /\ buf_ = [i \in 0..(CapacityPow2 - 1) |-> DefaultNote]
  /\ q_drops = 0
  /\ p_pc = "idle" /\ p_w = 0 /\ p_r = 0 /\ p_v = DefaultNote
  /\ c_pc = "idle" /\ c_r = 0 /\ c_w = 0 /\ c_out = DefaultNote
  /\ accepted = <<>> /\ popped = <<>> /\ rejected = 0 /\ nsubmit = 0

\* feature flags the daemon can be launched with (--fake, --no-bpf, config file)
LaunchConfigs ==
  { [DefaultConfig EXCEPT !.enable_bpf = b, !.enable_fake = f] : b, f \in BOOLEAN }

\* the flags a config patch of the control surface sets
PatchKeys == {"enable_audio", "enable_osc", "enable_bpf", "enable_fake"}

AInit ==
  /\ QParked
  /\ device_inited = FALSE
  /\ running_ = FALSE /\ stop_ = FALSE /\ fake_running_ = FALSE
  /\ cfg_ \in LaunchConfigs
  /\ midi_seq = FALSE /\ osc_fd = FALSE /\ bpf_ok = FALSE
  /\ music_ = FALSE /\ sampler_ = FALSE /\ fake_ = 0
  /\ music_pc = "none" /\ music_cfg = DefaultConfig /\ sampler_pc = "none"
  /\ fake_pc = [i \in 1..MaxFake |-> "none"]
  /\ m_pc = "idle" /\ m_cfg = DefaultConfig /\ m_new = 0 /\ m_calls = 0
  /\ h_pc = "idle" /\ h_prev = DefaultConfig /\ h_next = DefaultConfig
  /\ h_new = 0 /\ h_ops = 0
  /\ started = FALSE /\ torn = FALSE
  /\ err_ = [audio |-> "", midi |-> "", osc |-> "", bpf |-> ""]
  /\ LegacyParked /\ CtlParked /\ TimeParked /\ EngineParked

\* thread slots no fake_loop thread occupies
FreeFake == { i \in 1..MaxFake : fake_pc[i] = "none" }
NewFake == CHOOSE i \in FreeFake : \A j \in FreeFake : i <= j

\* std::thread::join on a handle: returns at once when the handle owns no thread,
\* else only once that thread has ended
CanJoinFake == fake_ # 0 => fake_pc[fake_] = "done"
JoinedFakePc == IF fake_ # 0 THEN [fake_pc EXCEPT ![fake_] = "none"] ELSE fake_pc

\* App::start lines 148-156: already running returns true; else clear stop_, set
\* running_, snapshot the config
AppStart ==
  /\ m_pc = "idle" /\ m_calls < MaxMainCalls
  /\ m_calls' = m_calls + 1
  /\ IF running_
       THEN UNCHANGED <<running_, stop_, m_cfg, m_pc, torn>>
       ELSE /\ stop_' = FALSE /\ running_' = TRUE
            /\ m_cfg' = cfg_ /\ m_pc' = "start_audio" /\ torn' = FALSE
  /\ UNCHANGED <<fake_running_, cfg_, midi_seq, osc_fd, bpf_ok, music_, sampler_,
                 fake_, music_pc, music_cfg, sampler_pc, fake_pc, m_new,
                 h_pc, h_prev, h_next, h_new, h_ops, started, device_inited, qrest, err_, notApp>>

\* start_audio_locked, start_midi_locked, start_osc_locked, start_bpf_locked
\* (app.cpp lines 47-139): a failed start stores the component's error text, or
\* "<component> init failed" when it gave none; a start that succeeds clears it
start_err(e, c, ok) ==
  IF ok THEN [e EXCEPT ![c] = ""]
        ELSE [e EXCEPT ![c] = [audio |-> "audio init failed",
                                  midi |-> "midi init failed",
                                  osc |-> "osc init failed",
                                  bpf |-> "bpf init failed"][c]]

\* App::start lines 159-162: AudioEngine::start keeps a running device, else the
\* device opens or fails to
StartAudio ==
  /\ m_pc = "start_audio"
  /\ \E ok \in BOOLEAN :
       /\ device_inited' = IF m_cfg.enable_audio THEN (device_inited \/ ok)
                                                 ELSE device_inited
       /\ err_' = IF m_cfg.enable_audio THEN start_err(err_, "audio", device_inited \/ ok)
                                        ELSE err_
  /\ m_pc' = "start_midi"
  /\ UNCHANGED <<running_, stop_, fake_running_, cfg_, midi_seq, osc_fd, bpf_ok,
                 music_, sampler_, fake_, music_pc, music_cfg, sampler_pc, fake_pc,
                 m_cfg, m_new, m_calls, h_pc, h_prev, h_next, h_new, h_ops,
                 started, torn, qrest, notApp>>

\* App::start lines 163-170: MidiOut::start and OscClient::start stop first, then
\* open or fail to
StartMidiOsc ==
  /\ m_pc = "start_midi"
  /\ \E mok, ook \in BOOLEAN :
       /\ midi_seq' = IF m_cfg.enable_midi THEN mok ELSE midi_seq
       /\ osc_fd' = IF m_cfg.enable_osc THEN ook ELSE osc_fd
       /\ \E e \in {IF m_cfg.enable_midi THEN start_err(err_, "midi", mok) ELSE err_} :
            err_' = IF m_cfg.enable_osc THEN start_err(e, "osc", ook) ELSE e
  /\ m_pc' = "start_bpf"
  /\ UNCHANGED <<running_, stop_, fake_running_, cfg_, bpf_ok,
                 music_, sampler_, fake_, music_pc, music_cfg, sampler_pc, fake_pc,
                 m_cfg, m_new, m_calls, h_pc, h_prev, h_next, h_new, h_ops,
                 started, torn, device_inited, qrest, notApp>>

\* a start that gives the probe up once the audio device has failed to open
StartBpfMutant ==
  /\ m_pc = "start_bpf"
  /\ \E ok \in BOOLEAN :
       /\ bpf_ok' = IF m_cfg.enable_bpf /\ err_.audio = "" THEN ok ELSE bpf_ok
       /\ err_' = IF m_cfg.enable_bpf
                    THEN (IF err_.audio = "" THEN start_err(err_, "bpf", ok) ELSE err_)
                    ELSE [err_ EXCEPT !.bpf = "disabled by config"]
  /\ m_pc' = "start_fake"
  /\ UNCHANGED <<running_, stop_, fake_running_, cfg_, midi_seq, osc_fd,
                 music_, sampler_, fake_, music_pc, music_cfg, sampler_pc, fake_pc,
                 m_cfg, m_new, m_calls, h_pc, h_prev, h_next, h_new, h_ops,
                 started, torn, device_inited, qrest, notApp>>

\* App::start lines 172-178: the probe attaches or fails to; a disabled probe is
\* reported as "disabled by config"
StartBpf ==
  /\ m_pc = "start_bpf"
  /\ \E ok \in BOOLEAN :
       /\ bpf_ok' = IF m_cfg.enable_bpf THEN ok ELSE bpf_ok
       /\ err_' = IF m_cfg.enable_bpf THEN start_err(err_, "bpf", ok)
                                      ELSE [err_ EXCEPT !.bpf = "disabled by config"]
  /\ m_pc' = "start_fake"
  /\ UNCHANGED <<running_, stop_, fake_running_, cfg_, midi_seq, osc_fd,
                 music_, sampler_, fake_, music_pc, music_cfg, sampler_pc, fake_pc,
                 m_cfg, m_new, m_calls, h_pc, h_prev, h_next, h_new, h_ops,
                 started, torn, device_inited, qrest, notApp>>

\* App::start lines 181-183: fake_running_ = true and the std::thread temporary is
\* constructed, which starts fake_loop
StartFake ==
  /\ m_pc = "start_fake"
  /\ IF m_cfg.enable_fake /\ ~bpf_ok
       THEN /\ FreeFake # {}
            /\ fake_running_' = TRUE
            /\ fake_pc' = [fake_pc EXCEPT ![NewFake] = "check"]
            /\ m_new' = NewFake
            /\ m_pc' = "start_fake_assign"
       ELSE /\ m_pc' = "start_loops"
            /\ UNCHANGED <<fake_running_, fake_pc, m_new>>
  /\ UNCHANGED <<running_, stop_, cfg_, midi_seq, osc_fd, bpf_ok,
                 music_, sampler_, fake_, music_pc, music_cfg, sampler_pc,
                 m_cfg, m_calls, h_pc, h_prev, h_next, h_new, h_ops,
                 started, torn, device_inited, qrest, err_, notApp>>

\* App::start line 183: the temporary is move-assigned to fake_; assigning to a
\* joinable std::thread calls std::terminate, which ends every thread
StartFakeAssign ==
  /\ m_pc = "start_fake_assign"
  /\ IF fake_ # 0
       THEN /\ m_pc' = "terminated" /\ h_pc' = "terminated"
            /\ music_pc' = "none" /\ sampler_pc' = "none"
            /\ fake_pc' = [i \in 1..MaxFake |-> "none"]
            /\ fake_' = fake_
       ELSE /\ fake_' = m_new /\ m_pc' = "start_loops"
            /\ UNCHANGED <<h_pc, music_pc, sampler_pc, fake_pc>>
  /\ UNCHANGED <<running_, stop_, fake_running_, cfg_, midi_seq, osc_fd, bpf_ok,
                 music_, sampler_, music_cfg, m_cfg, m_new, m_calls,
                 h_prev, h_next, h_new, h_ops, started, torn, device_inited, qrest, err_, notApp>>

\* App::start lines 186-189: spawn the sampler and the sequencer, return true
StartLoops ==
  /\ m_pc = "start_loops"
  /\ sampler_' = TRUE /\ sampler_pc' = "check"
  /\ music_' = TRUE /\ music_pc' = "check"
  /\ started' = TRUE
  /\ m_pc' = "idle"
  /\ UNCHANGED <<running_, stop_, fake_running_, cfg_, midi_seq, osc_fd, bpf_ok,
                 fake_, music_cfg, fake_pc, m_cfg, m_new, m_calls,
                 h_pc, h_prev, h_next, h_new, h_ops, torn, device_inited, qrest, err_, notApp>>

\* App::stop lines 193-196: not running returns; else set stop_, clear fake_running_
AppStop ==
  /\ m_pc = "idle" /\ m_calls < MaxMainCalls
  /\ m_calls' = m_calls + 1
  /\ IF ~running_
       THEN UNCHANGED <<running_, stop_, fake_running_, m_pc>>
       ELSE /\ running_' = FALSE /\ stop_' = TRUE /\ fake_running_' = FALSE
            /\ m_pc' = "join_music"
  /\ UNCHANGED <<cfg_, midi_seq, osc_fd, bpf_ok, music_, sampler_, fake_,
                 music_pc, music_cfg, sampler_pc, fake_pc, m_cfg, m_new,
                 h_pc, h_prev, h_next, h_new, h_ops, started, torn,
                 device_inited, qrest, err_, notApp>>

\* a join that does not wait for the thread to end
StopJoinMusicMutant ==
  /\ m_pc = "join_music"
  /\ music_' = FALSE
  /\ m_pc' = "join_sampler"
  /\ UNCHANGED <<running_, stop_, fake_running_, cfg_, midi_seq, osc_fd, bpf_ok,
                 sampler_, fake_, music_pc, music_cfg, sampler_pc, fake_pc, m_cfg, m_new,
                 m_calls, h_pc, h_prev, h_next, h_new, h_ops, started, torn,
                 device_inited, qrest, err_, notApp>>

\* App::stop line 198: if (music_.joinable()) music_.join()
StopJoinMusic ==
  /\ m_pc = "join_music"
  /\ music_ => music_pc = "done"
  /\ music_' = FALSE
  /\ music_pc' = IF music_ THEN "none" ELSE music_pc
  /\ m_pc' = "join_sampler"
  /\ UNCHANGED <<running_, stop_, fake_running_, cfg_, midi_seq, osc_fd, bpf_ok,
                 sampler_, fake_, music_cfg, sampler_pc, fake_pc, m_cfg, m_new,
                 m_calls, h_pc, h_prev, h_next, h_new, h_ops, started, torn,
                 device_inited, qrest, err_, notApp>>

\* App::stop line 199: if (sampler_.joinable()) sampler_.join()
StopJoinSampler ==
  /\ m_pc = "join_sampler"
  /\ sampler_ => sampler_pc = "done"
  /\ sampler_' = FALSE
  /\ sampler_pc' = IF sampler_ THEN "none" ELSE sampler_pc
  /\ m_pc' = "join_fake"
  /\ UNCHANGED <<running_, stop_, fake_running_, cfg_, midi_seq, osc_fd, bpf_ok,
                 music_, fake_, music_pc, music_cfg, fake_pc, m_cfg, m_new,
                 m_calls, h_pc, h_prev, h_next, h_new, h_ops, started, torn,
                 device_inited, qrest, err_, notApp>>

\* App::stop line 200: if (fake_.joinable()) fake_.join(); fake_ is read without a
\* lock, so the handle is whatever the other threads have stored so far
StopJoinFake ==
  /\ m_pc = "join_fake"
  /\ CanJoinFake
  /\ fake_' = 0
  /\ fake_pc' = JoinedFakePc
  /\ m_pc' = "stop_bpf"
  /\ UNCHANGED <<running_, stop_, fake_running_, cfg_, midi_seq, osc_fd, bpf_ok,
                 music_, sampler_, music_pc, music_cfg, sampler_pc, m_cfg, m_new,
                 m_calls, h_pc, h_prev, h_next, h_new, h_ops, started, torn,
                 device_inited, qrest, err_, notApp>>

\* App::stop lines 202-205: the first component is torn down, BpfCollector::stop
StopBpf ==
  /\ m_pc = "stop_bpf"
  /\ bpf_ok' = FALSE
  /\ torn' = TRUE
  /\ m_pc' = "stop_sinks"
  /\ UNCHANGED <<running_, stop_, fake_running_, cfg_, midi_seq, osc_fd,
                 music_, sampler_, fake_, music_pc, music_cfg, sampler_pc, fake_pc,
                 m_cfg, m_new, m_calls, h_pc, h_prev, h_next, h_new, h_ops,
                 started, device_inited, qrest, err_, notApp>>

\* App::stop lines 206-217: OscClient::stop, MidiOut::stop, AudioEngine::stop
StopSinks ==
  /\ m_pc = "stop_sinks"
  /\ osc_fd' = FALSE /\ midi_seq' = FALSE /\ device_inited' = FALSE
  /\ m_pc' = "idle"
  /\ UNCHANGED <<running_, stop_, fake_running_, cfg_, bpf_ok,
                 music_, sampler_, fake_, music_pc, music_cfg, sampler_pc, fake_pc,
                 m_cfg, m_new, m_calls, h_pc, h_prev, h_next, h_new, h_ops,
                 started, torn, qrest, err_, notApp>>

\* music_loop line 267: while (!stop_.load())
MusicCheck ==
  /\ music_pc = "check"
  /\ music_pc' = IF stop_ THEN "done" ELSE "sleep"
  /\ UNCHANGED <<running_, stop_, fake_running_, cfg_, midi_seq, osc_fd, bpf_ok,
                 music_, sampler_, fake_, music_cfg, sampler_pc, fake_pc,
                 m_pc, m_cfg, m_new, m_calls, h_pc, h_prev, h_next, h_new, h_ops,
                 started, torn, device_inited, qrest, err_, notApp>>

\* music_loop lines 271-291: sleep_until(next); if (stop_) break; snapshot the
\* config; tick the engine, whose frame holds a note or none
MusicWake ==
  /\ music_pc = "sleep"
  /\ \E note \in BOOLEAN :
       IF stop_
         THEN music_pc' = "done" /\ music_cfg' = music_cfg
         ELSE /\ music_cfg' = cfg_
              /\ music_pc' = IF note THEN "emit_audio" ELSE "signals"
  /\ UNCHANGED <<running_, stop_, fake_running_, cfg_, midi_seq, osc_fd, bpf_ok,
                 music_, sampler_, fake_, sampler_pc, fake_pc,
                 m_pc, m_cfg, m_new, m_calls, h_pc, h_prev, h_next, h_new, h_ops,
                 started, torn, device_inited, qrest, err_, notApp>>

\* music_loop line 301: if (cfg.enable_audio && audio_.is_running()) enter
\* audio_.submit_note(n)
MusicEmitAudio ==
  /\ music_pc = "emit_audio"
  /\ music_pc' = IF music_cfg.enable_audio /\ device_inited THEN "submit"
                                                            ELSE "emit_sinks"
  /\ UNCHANGED <<running_, stop_, fake_running_, cfg_, midi_seq, osc_fd, bpf_ok,
                 music_, sampler_, fake_, music_cfg, sampler_pc, fake_pc,
                 m_pc, m_cfg, m_new, m_calls, h_pc, h_prev, h_next, h_new, h_ops,
                 started, torn, device_inited, qrest, err_, notApp>>

\* music_loop line 301: audio_.submit_note(n) returns
MusicSubmitReturn ==
  /\ music_pc = "submit"
  /\ music_pc' = "emit_sinks"
  /\ UNCHANGED <<running_, stop_, fake_running_, cfg_, midi_seq, osc_fd, bpf_ok,
                 music_, sampler_, fake_, music_cfg, sampler_pc, fake_pc,
                 m_pc, m_cfg, m_new, m_calls, h_pc, h_prev, h_next, h_new, h_ops,
                 started, torn, device_inited, qrest, err_, notApp>>

\* music_loop lines 302-303: midi_.send_note(n), osc_.send_note(n)
MusicEmitSinks ==
  /\ music_pc = "emit_sinks"
  /\ music_pc' = "signals"
  /\ UNCHANGED <<running_, stop_, fake_running_, cfg_, midi_seq, osc_fd, bpf_ok,
                 music_, sampler_, fake_, music_cfg, sampler_pc, fake_pc,
                 m_pc, m_cfg, m_new, m_calls, h_pc, h_prev, h_next, h_new, h_ops,
                 started, torn, device_inited, qrest, err_, notApp>>

\* music_loop lines 306-322: MIDI CC and OSC signal/metrics messages; loop
MusicSignals ==
  /\ music_pc = "signals"
  /\ music_pc' = "check"
  /\ UNCHANGED <<running_, stop_, fake_running_, cfg_, midi_seq, osc_fd, bpf_ok,
                 music_, sampler_, fake_, music_cfg, sampler_pc, fake_pc,
                 m_pc, m_cfg, m_new, m_calls, h_pc, h_prev, h_next, h_new, h_ops,
                 started, torn, device_inited, qrest, err_, notApp>>

\* sampler_loop line 224: while (!stop_.load())
SamplerCheck ==
  /\ sampler_pc = "check"
  /\ sampler_pc' = IF stop_ THEN "done" ELSE "sleep"
  /\ UNCHANGED <<running_, stop_, fake_running_, cfg_, midi_seq, osc_fd, bpf_ok,
                 music_, sampler_, fake_, music_pc, music_cfg, fake_pc,
                 m_pc, m_cfg, m_new, m_calls, h_pc, h_prev, h_next, h_new, h_ops,
                 started, torn, device_inited, qrest, err_, notApp>>

\* sampler_loop lines 225-255: the sleep ends and the iteration body runs
SamplerBody ==
  /\ sampler_pc = "sleep"
  /\ sampler_pc' = "check"
  /\ UNCHANGED <<running_, stop_, fake_running_, cfg_, midi_seq, osc_fd, bpf_ok,
                 music_, sampler_, fake_, music_pc, music_cfg, fake_pc,
                 m_pc, m_cfg, m_new, m_calls, h_pc, h_prev, h_next, h_new, h_ops,
                 started, torn, device_inited, qrest, err_, notApp>>

\* fake_loop line 327: while (!stop_.load() && fake_running_.load())
FakeCheck(i) ==
  /\ fake_pc[i] = "check"
  /\ fake_pc' = [fake_pc EXCEPT ![i] = IF ~stop_ /\ fake_running_ THEN "sleep"
                                                                   ELSE "done"]
  /\ UNCHANGED <<running_, stop_, fake_running_, cfg_, midi_seq, osc_fd, bpf_ok,
                 music_, sampler_, fake_, music_pc, music_cfg, sampler_pc,
                 m_pc, m_cfg, m_new, m_calls, h_pc, h_prev, h_next, h_new, h_ops,
                 started, torn, device_inited, qrest, err_, notApp>>

\* fake_loop lines 328-334: the sleep ends and the totals are incremented
FakeBody(i) ==
  /\ fake_pc[i] = "sleep"
  /\ fake_pc' = [fake_pc EXCEPT ![i] = "check"]
  /\ UNCHANGED <<running_, stop_, fake_running_, cfg_, midi_seq, osc_fd, bpf_ok,
                 music_, sampler_, fake_, music_pc, music_cfg, sampler_pc,
                 m_pc, m_cfg, m_new, m_calls, h_pc, h_prev, h_next, h_new, h_ops,
                 started, torn, device_inited, qrest, err_, notApp>>

\* api_test_note lines 515-526: build the note, snapshot the config
TestNote ==
  /\ h_pc = "idle" /\ started /\ h_ops < MaxOps
  /\ h_ops' = h_ops + 1
  /\ h_prev' = cfg_
  /\ h_pc' = "tn_audio"
  /\ UNCHANGED <<running_, stop_, fake_running_, cfg_, midi_seq, osc_fd, bpf_ok,
                 music_, sampler_, fake_, music_pc, music_cfg, sampler_pc, fake_pc,
                 m_pc, m_cfg, m_new, m_calls, h_next, h_new,
                 started, torn, device_inited, qrest, err_, notApp>>

\* api_test_note lines 528-529: if (cfg.enable_audio && audio_.is_running()) enter
\* audio_.submit_note(ev)
TestNoteAudio ==
  /\ h_pc = "tn_audio"
  /\ h_pc' = IF h_prev.enable_audio /\ device_inited THEN "tn_submit" ELSE "tn_sinks"
  /\ UNCHANGED <<running_, stop_, fake_running_, cfg_, midi_seq, osc_fd, bpf_ok,
                 music_, sampler_, fake_, music_pc, music_cfg, sampler_pc, fake_pc,
                 m_pc, m_cfg, m_new, m_calls, h_prev, h_next, h_new, h_ops,
                 started, torn, device_inited, qrest, err_, notApp>>

\* api_test_note lines 529-530: audio_.submit_note(ev) returns
TestNoteSubmitReturn ==
  /\ h_pc = "tn_submit"
  /\ h_pc' = "tn_sinks"
  /\ UNCHANGED <<running_, stop_, fake_running_, cfg_, midi_seq, osc_fd, bpf_ok,
                 music_, sampler_, fake_, music_pc, music_cfg, sampler_pc, fake_pc,
                 m_pc, m_cfg, m_new, m_calls, h_prev, h_next, h_new, h_ops,
                 started, torn, device_inited, qrest, err_, notApp>>

\* api_test_note lines 532-545: MIDI and OSC sends, return
TestNoteSinks ==
  /\ h_pc = "tn_sinks"
  /\ h_pc' = "idle"
  /\ UNCHANGED <<running_, stop_, fake_running_, cfg_, midi_seq, osc_fd, bpf_ok,
                 music_, sampler_, fake_, music_pc, music_cfg, sampler_pc, fake_pc,
                 m_pc, m_cfg, m_new, m_calls, h_prev, h_next, h_new, h_ops,
                 started, torn, device_inited, qrest, err_, notApp>>

\* api_put_config lines 589-597: prev = snapshot, next = prev patched; the patch
\* sets one feature flag
PutConfig ==
  /\ h_pc = "idle" /\ started /\ h_ops < MaxOps
  /\ h_ops' = h_ops + 1
  /\ \E k \in PatchKeys, b \in BOOLEAN :
       /\ h_prev' = cfg_
       /\ h_next' = [cfg_ EXCEPT ![k] = b]
  /\ h_pc' = "put_audio"
  /\ UNCHANGED <<running_, stop_, fake_running_, cfg_, midi_seq, osc_fd, bpf_ok,
                 music_, sampler_, fake_, music_pc, music_cfg, sampler_pc, fake_pc,
                 m_pc, m_cfg, m_new, m_calls, h_new,
                 started, torn, device_inited, qrest, err_, notApp>>

\* api_put_config lines 610-626, audio section under audio_mu_
PutAudio ==
  /\ h_pc = "put_audio"
  /\ \E ok \in BOOLEAN :
       /\ device_inited' =
            IF h_prev.enable_audio # h_next.enable_audio
              THEN (IF h_next.enable_audio THEN (device_inited \/ ok) ELSE FALSE)
              ELSE device_inited
       /\ err_' = IF h_prev.enable_audio # h_next.enable_audio /\ h_next.enable_audio
                    THEN start_err(err_, "audio", device_inited \/ ok) ELSE err_
  /\ h_pc' = "put_sinks"
  /\ UNCHANGED <<running_, stop_, fake_running_, cfg_, midi_seq, osc_fd, bpf_ok,
                 music_, sampler_, fake_, music_pc, music_cfg, sampler_pc, fake_pc,
                 m_pc, m_cfg, m_new, m_calls, h_prev, h_next, h_new, h_ops,
                 started, torn, qrest, notApp>>

\* api_put_config lines 629-648, MIDI and OSC sections
PutMidiOsc ==
  /\ h_pc = "put_sinks"
  /\ \E mok, ook \in BOOLEAN :
       /\ midi_seq' = IF h_prev.enable_midi # h_next.enable_midi
                        THEN (h_next.enable_midi /\ mok) ELSE midi_seq
       /\ osc_fd' = IF h_prev.enable_osc # h_next.enable_osc
                      THEN (h_next.enable_osc /\ ook) ELSE osc_fd
       /\ \E e \in {IF h_prev.enable_midi # h_next.enable_midi /\ h_next.enable_midi
                       THEN start_err(err_, "midi", mok) ELSE err_} :
            err_' = IF h_prev.enable_osc # h_next.enable_osc /\ h_next.enable_osc
                      THEN start_err(e, "osc", ook) ELSE e
  /\ h_pc' = "put_bpf"
  /\ UNCHANGED <<running_, stop_, fake_running_, cfg_, bpf_ok,
                 music_, sampler_, fake_, music_pc, music_cfg, sampler_pc, fake_pc,
                 m_pc, m_cfg, m_new, m_calls, h_prev, h_next, h_new, h_ops,
                 started, torn, device_inited, qrest, notApp>>

\* api_put_config lines 651-667, probe section
PutBpf ==
  /\ h_pc = "put_bpf"
  /\ \E ok \in BOOLEAN :
       /\ bpf_ok' = IF h_prev.enable_bpf # h_next.enable_bpf
                      THEN (h_next.enable_bpf /\ ok) ELSE bpf_ok
       /\ err_' = IF h_prev.enable_bpf # h_next.enable_bpf /\ h_next.enable_bpf
                    THEN start_err(err_, "bpf", ok) ELSE err_
  /\ h_pc' = "put_fake"
  /\ UNCHANGED <<running_, stop_, fake_running_, cfg_, midi_seq, osc_fd,
                 music_, sampler_, fake_, music_pc, music_cfg, sampler_pc, fake_pc,
                 m_pc, m_cfg, m_new, m_calls, h_prev, h_next, h_new, h_ops,
                 started, torn, device_inited, qrest, notApp>>

\* api_put_config lines 671-673 and 679: want_fake; the branch taken
PutFake ==
  /\ h_pc = "put_fake"
  /\ IF h_next.enable_fake /\ ~bpf_ok
       THEN /\ h_pc' = IF fake_running_ THEN "put_store" ELSE "put_fake_spawn"
            /\ fake_running_' = fake_running_
       ELSE /\ fake_running_' = FALSE
            /\ h_pc' = "put_fake_join"
  /\ UNCHANGED <<running_, stop_, cfg_, midi_seq, osc_fd, bpf_ok,
                 music_, sampler_, fake_, music_pc, music_cfg, sampler_pc, fake_pc,
                 m_pc, m_cfg, m_new, m_calls, h_prev, h_next, h_new, h_ops,
                 started, torn, device_inited, qrest, err_, notApp>>

\* api_put_config lines 674-676: join the old thread if joinable, fake_running_ =
\* true, construct the std::thread temporary, which starts fake_loop
PutFakeSpawn ==
  /\ h_pc = "put_fake_spawn"
  /\ CanJoinFake
  /\ \E i \in { j \in 1..MaxFake : JoinedFakePc[j] = "none" } :
       /\ \A j \in 1..MaxFake : JoinedFakePc[j] = "none" => i <= j
       /\ fake_pc' = [JoinedFakePc EXCEPT ![i] = "check"]
       /\ h_new' = i
  /\ fake_' = 0
  /\ fake_running_' = TRUE
  /\ h_pc' = "put_fake_assign"
  /\ UNCHANGED <<running_, stop_, cfg_, midi_seq, osc_fd, bpf_ok,
                 music_, sampler_, music_pc, music_cfg, sampler_pc,
                 m_pc, m_cfg, m_new, m_calls, h_prev, h_next, h_ops,
                 started, torn, device_inited, qrest, err_, notApp>>

\* api_put_config line 676: the temporary is move-assigned to fake_; assigning to
\* a joinable std::thread calls std::terminate
PutFakeAssign ==
  /\ h_pc = "put_fake_assign"
  /\ IF fake_ # 0
       THEN /\ m_pc' = "terminated" /\ h_pc' = "terminated"
            /\ music_pc' = "none" /\ sampler_pc' = "none"
            /\ fake_pc' = [i \in 1..MaxFake |-> "none"]
            /\ fake_' = fake_
       ELSE /\ fake_' = h_new /\ h_pc' = "put_store"
            /\ UNCHANGED <<m_pc, music_pc, sampler_pc, fake_pc>>
  /\ UNCHANGED <<running_, stop_, fake_running_, cfg_, midi_seq, osc_fd, bpf_ok,
                 music_, sampler_, music_cfg, m_cfg, m_new, m_calls,
                 h_prev, h_next, h_new, h_ops, started, torn, device_inited, qrest, err_, notApp>>

\* api_put_config line 680: if (fake_.joinable()) fake_.join()
PutFakeJoin ==
  /\ h_pc = "put_fake_join"
  /\ CanJoinFake
  /\ fake_' = 0
  /\ fake_pc' = JoinedFakePc
  /\ h_pc' = "put_store"
  /\ UNCHANGED <<running_, stop_, fake_running_, cfg_, midi_seq, osc_fd, bpf_ok,
                 music_, sampler_, music_pc, music_cfg, sampler_pc,
                 m_pc, m_cfg, m_new, m_calls, h_prev, h_next, h_new, h_ops,
                 started, torn, device_inited, qrest, err_, notApp>>

\* api_put_config lines 685-697: cfg_ = next under cfg_mu_, reply 200
PutStore ==
  /\ h_pc = "put_store"
  /\ cfg_' = h_next
  /\ h_pc' = "idle"
  /\ UNCHANGED <<running_, stop_, fake_running_, midi_seq, osc_fd, bpf_ok,
                 music_, sampler_, fake_, music_pc, music_cfg, sampler_pc, fake_pc,
                 m_pc, m_cfg, m_new, m_calls, h_prev, h_next, h_new, h_ops,
                 started, torn, device_inited, qrest, err_, notApp>>

ANext ==
  \/ AppStart \/ StartAudio \/ StartMidiOsc \/ StartBpf \/ StartFake
  \/ StartFakeAssign \/ StartLoops
  \/ AppStop \/ StopJoinMusic \/ StopJoinSampler \/ StopJoinFake
  \/ StopBpf \/ StopSinks
  \/ MusicCheck \/ MusicWake \/ MusicEmitAudio \/ MusicSubmitReturn
  \/ MusicEmitSinks \/ MusicSignals
  \/ SamplerCheck \/ SamplerBody
  \/ \E i \in 1..MaxFake : FakeCheck(i)
  \/ \E i \in 1..MaxFake : FakeBody(i)
  \/ TestNote \/ TestNoteAudio \/ TestNoteSubmitReturn \/ TestNoteSinks
  \/ PutConfig \/ PutAudio \/ PutMidiOsc \/ PutBpf \/ PutFake \/ PutFakeSpawn
  \/ PutFakeAssign \/ PutFakeJoin \/ PutStore

SpecApp == AInit /\ [][ANext]_vars

(***************************************************************************)
(* Claims about the App lifecycle, checked under SpecApp.                  *)
(***************************************************************************)
\* C3: the note queue has a single producer: at no point are the sequencer thread
\* and a control-surface thread both inside AudioEngine::submit_note.
C3_SingleProducer == ~(music_pc = "submit" /\ h_pc = "tn_submit")

\* C5: once App::stop has begun tearing a component down, no background loop is
\* inside an iteration: the sequencer and the sampler have ended, and every
\* fake_loop thread has ended or will end at the loop test it has yet to make.
C5_TeardownAfterLoopsEnded ==
  torn => /\ music_pc \in {"none", "done"}
          /\ sampler_pc \in {"none", "done"}
          /\ \A i \in 1..MaxFake : fake_pc[i] \in {"none", "check", "done"}

\* start() or a config_put has returned, the App runs, and no control operation
\* or lifecycle call is in progress
ControlQuiet == started /\ running_ /\ m_pc = "idle" /\ h_pc = "idle"

\* a fake_loop thread exists and has not ended
FakeThreadLive == \E i \in 1..MaxFake : fake_pc[i] \in {"check", "sleep"}

\* C11: whenever start() or a config_put has returned and no control operation is
\* in progress, a fake generator thread runs if and only if enable_fake is set and
\* the probe is not ok; and no fake_loop iteration adds its synthetic increments to
\* the totals while the probe reader is ok.
C11_FakeOnlyWithoutProbe ==
  [][ /\ ControlQuiet' => (FakeThreadLive' <=> (cfg_'.enable_fake /\ ~bpf_ok'))
      /\ \A i \in 1..MaxFake : FakeBody(i) => ~bpf_ok ]_vars

\* what each component reports as its running state
ComponentOk ==
  [audio |-> device_inited, midi |-> midi_seq, osc |-> osc_fd, bpf |-> bpf_ok]

\* the components App::start was asked to start
StartEnabled ==
  [audio |-> m_cfg.enable_audio, midi |-> m_cfg.enable_midi,
   osc |-> m_cfg.enable_osc, bpf |-> m_cfg.enable_bpf]

\* App::start has returned, App::stop has not been called since, and no control
\* operation has touched a component yet
StartReturned == started /\ running_ /\ m_pc = "idle" /\ h_ops = 0

notLegacy == <<qvars, avars, cvars, tvars, evars>>

\* the seconds argument of a note, in render blocks
NoteBlocks == {1, 2}

LInit ==
  /\ LegacyParked
  /\ QParked /\ device_inited = FALSE
  /\ AppParked /\ CtlParked /\ TimeParked /\ EngineParked

\* the device thread enters audio_cb (lines 45-51) and reaches the scoped_lock
CbEnter ==
  /\ cb_pc = "idle"
  /\ cb_pc' = "lock"
  /\ UNCHANGED <<g_mu, g_voices, n_pc, n_dur, n_calls>>
  /\ UNCHANGED notLegacy

\* audio_cb line 53: std::scoped_lock lk(g.mu) returns once the mutex is free
CbLock ==
  /\ cb_pc = "lock"
  /\ g_mu = "free"
  /\ g_mu' = "cb"
  /\ cb_pc' = "mix"
  /\ UNCHANGED <<g_voices, n_pc, n_dur, n_calls>>
  /\ UNCHANGED notLegacy

\* audio_cb lines 54-77 for one voice over one block: a voice with nothing left
\* is switched off, else it sounds and samples_left counts down
MixVoice(v) ==
  IF ~v.active THEN v
  ELSE IF v.samples_left <= 0 THEN [v EXCEPT !.active = FALSE]
  ELSE [v EXCEPT !.samples_left = v.samples_left - 1]

\* audio_cb lines 54-83: mix every voice, soft clip
CbMix ==
  /\ cb_pc = "mix"
  /\ g_voices' = [i \in 1..kMaxVoices |-> MixVoice(g_voices[i])]
  /\ cb_pc' = "unlock"
  /\ UNCHANGED <<g_mu, n_pc, n_dur, n_calls>>
  /\ UNCHANGED notLegacy

\* audio_cb line 84: the scoped_lock is released, the callback returns
CbReturn ==
  /\ cb_pc = "unlock"
  /\ g_mu' = "free"
  /\ cb_pc' = "idle"
  /\ UNCHANGED <<g_voices, n_pc, n_dur, n_calls>>
  /\ UNCHANGED notLegacy

\* khor_audio_note_on lines 183-185 and audio_note_on line 155, called by thread t
NoteOn(t) ==
  /\ n_pc[t] = "idle" /\ n_calls < MaxNoteOn
  /\ n_calls' = n_calls + 1
  /\ \E d \in NoteBlocks : n_dur' = [n_dur EXCEPT ![t] = d]
  /\ n_pc' = [n_pc EXCEPT ![t] = "lock"]
  /\ UNCHANGED <<g_mu, g_voices, cb_pc>>
  /\ UNCHANGED notLegacy

\* audio_note_on line 156: std::scoped_lock lk(g.mu)
NoteLock(t) ==
  /\ n_pc[t] = "lock"
  /\ g_mu = "free"
  /\ g_mu' = t
  /\ n_pc' = [n_pc EXCEPT ![t] = "write"]
  /\ UNCHANGED <<g_voices, cb_pc, n_dur, n_calls>>
  /\ UNCHANGED notLegacy

\* audio_note_on lines 159-163: the first inactive voice, else voice 0 (here 1)
PickVoice ==
  IF \E i \in 1..kMaxVoices : ~g_voices[i].active
    THEN CHOOSE i \in 1..kMaxVoices :
           /\ ~g_voices[i].active
           /\ \A j \in 1..kMaxVoices : ~g_voices[j].active => i <= j
    ELSE 1

\* audio_note_on lines 165-172: fill the slot
NoteWrite(t) ==
  /\ n_pc[t] = "write"
  /\ g_voices' = [g_voices EXCEPT ![PickVoice] =
                    [active |-> TRUE, samples_left |-> n_dur[t]]]
  /\ n_pc' = [n_pc EXCEPT ![t] = "unlock"]
  /\ UNCHANGED <<g_mu, cb_pc, n_dur, n_calls>>
  /\ UNCHANGED notLegacy

\* audio_note_on line 173: the scoped_lock is released
NoteReturn(t) ==
  /\ n_pc[t] = "unlock"
  /\ g_mu' = "free"
  /\ n_pc' = [n_pc EXCEPT ![t] = "idle"]
  /\ UNCHANGED <<g_voices, cb_pc, n_dur, n_calls>>
  /\ UNCHANGED notLegacy

LNext ==
  \/ CbEnter \/ CbLock \/ CbMix \/ CbReturn
  \/ \E t \in Callers : NoteOn(t)
  \/ \E t \in Callers : NoteLock(t)
  \/ \E t \in Callers : NoteWrite(t)
  \/ \E t \in Callers : NoteReturn(t)

SpecLegacy == LInit /\ [][LNext]_vars

(***************************************************************************)
(* Claims about the audio callback, checked under SpecLegacy.              *)
(***************************************************************************)
\* C4: the audio callback is wait-free: it is never at a mutex that a sequencer
\* or control-plane thread holds, so no such thread can delay a render block.
C4_CallbackNeverWaits == ~(cb_pc = "lock" /\ g_mu \in Callers)

(***************************************************************************)
(* Control surface: api_put_config, api_select_preset and                  *)
(* api_audio_set_device, each taken as one step, on an App that            *)
(* App::start has brought up from the default config.  The background      *)
(* loops write none of the state these operations read, and stay where     *)
(* App::start left them.                                                   *)
(***************************************************************************)
\* number of control-surface operations explored
MaxCtlOps == 2

notCtl == <<qrest, lvars, tvars, evars, running_, stop_, music_, sampler_, music_pc,
            music_cfg, sampler_pc, m_pc, m_cfg, m_new, m_calls,
            h_pc, h_prev, h_next, h_new, h_ops, started, torn>>

\* config.cpp lines 21-25
clamp_int(v, lo, hi) == IF v < lo THEN lo ELSE IF v > hi THEN hi ELSE v

\* a clamp that lets values above the upper bound through
clamp_doubleMutant(v, lo, hi) == IF v < lo THEN lo ELSE v

\* config.cpp lines 27-31
clamp_double(v, lo, hi) == IF v < lo THEN lo ELSE IF v > hi THEN hi ELSE v

\* a JSON patch: a non-object value, or an object holding one key, either inside
\* one section object or (sec = "") at the root
Patch(sec, key, vals) ==
  { [name |-> "put_config", kind |-> "object", sec |-> sec, key |-> key, val |-> v] :
      v \in vals }

NonObjectPatches ==
  { [name |-> "put_config", kind |-> k, sec |-> "", key |-> "", val |-> 0] :
      k \in {"array", "number", "null"} }

\* numbers below, on, inside and above the bounds (bpm in tenths; density,
\* smoothing, master gain in hundredths)
NumberPatches ==
  Patch("music", "bpm", {5, 10, 900, 4000, 9000}) \cup Patch("", "bpm", {5, 2000})
  \cup Patch("music", "key_midi", {-1, 60, 200}) \cup Patch("", "key_midi", {130})
  \cup Patch("music", "density", {-50, 50, 150})
  \cup Patch("music", "smoothing", {-50, 50, 150})
  \cup Patch("audio", "sample_rate", {4000, 44100, 400000})
  \cup Patch("audio", "master_gain", {-10, 50, 300})
  \cup Patch("midi", "channel", {0, 10, 17})
  \cup Patch("osc", "port", {0, 9001, 70000})
  \cup Patch("listen", "port", {0, 8080, 70000})
  \cup Patch("bpf", "sample_interval_ms", {5, 100, 6000})

FlagPatches ==
  UNION { Patch("features", k, BOOLEAN) : k \in {"bpf", "audio", "midi", "osc", "fake"} }

\* strings; the probe mask is a number in the JSON and is kept as its hex text
StringPatches ==
  Patch("music", "preset", {"arp"}) \cup Patch("audio", "backend", {"alsa"})
  \cup Patch("audio", "device", {"hw:1"}) \cup Patch("midi", "port", {"out2"})
  \cup Patch("osc", "host", {"10.0.0.2"}) \cup Patch("bpf", "enabled_mask", {"0x1"})

\* obj_get_obj (config.cpp lines 15-19): the section is present and is an object
obj_get_obj(root, sec) == root.kind = "object" /\ root.sec = sec /\ sec # ""

\* json_get_number / json_get_bool / json_get_string: the value under key in the
\* object, or def when the key is absent
json_get(root, sec, key, def) ==
  IF root.kind = "object" /\ root.sec = sec /\ root.key = key THEN root.val ELSE def

\* config.cpp lines 97-160: the fields of cfg after the patch is merged in
Merged(root, cfg) ==
  LET music_bpm ==
        IF obj_get_obj(root, "music")
          THEN clamp_double(json_get(root, "music", "bpm", cfg.bpm), 10, 4000)
          ELSE cfg.bpm
      music_key ==
        IF obj_get_obj(root, "music")
          THEN clamp_int(json_get(root, "music", "key_midi", cfg.key_midi), 0, 127)
          ELSE cfg.key_midi
  IN
  [enable_bpf |-> json_get(root, "features", "bpf", cfg.enable_bpf),
   enable_audio |-> json_get(root, "features", "audio", cfg.enable_audio),
   enable_midi |-> json_get(root, "features", "midi", cfg.enable_midi),
   enable_osc |-> json_get(root, "features", "osc", cfg.enable_osc),
   enable_fake |-> json_get(root, "features", "fake", cfg.enable_fake),
   listen_port |->
     IF obj_get_obj(root, "listen")
       THEN clamp_int(json_get(root, "listen", "port", cfg.listen_port), 1, 65535)
       ELSE cfg.listen_port,
   bpf_enabled_mask |-> json_get(root, "bpf", "enabled_mask", cfg.bpf_enabled_mask),
   bpf_sample_interval_ms |->
     IF obj_get_obj(root, "bpf")
       THEN clamp_int(json_get(root, "bpf", "sample_interval_ms",
                               cfg.bpf_sample_interval_ms), 10, 5000)
       ELSE cfg.bpf_sample_interval_ms,
   bpm |-> clamp_double(json_get(root, "", "bpm", music_bpm), 10, 4000),
   key_midi |-> clamp_int(json_get(root, "", "key_midi", music_key), 0, 127),
   preset |-> json_get(root, "music", "preset", cfg.preset),
   density |->
     IF obj_get_obj(root, "music")
       THEN clamp_double(json_get(root, "music", "density", cfg.density), 0, 100)
       ELSE cfg.density,
   smoothing |->
     IF obj_get_obj(root, "music")
       THEN clamp_double(json_get(root, "music", "smoothing", cfg.smoothing), 0, 100)
       ELSE cfg.smoothing,
   audio_backend |-> json_get(root, "audio", "backend", cfg.audio_backend),
   audio_device |-> json_get(root, "audio", "device", cfg.audio_device),
   audio_sample_rate |->
     IF obj_get_obj(root, "audio")
       THEN clamp_int(json_get(root, "audio", "sample_rate", cfg.audio_sample_rate),
                      8000, 192000)
       ELSE cfg.audio_sample_rate,
   audio_master_gain |->
     IF obj_get_obj(root, "audio")
       THEN clamp_double(json_get(root, "audio", "master_gain",
                                  cfg.audio_master_gain), 0, 200)
       ELSE cfg.audio_master_gain,
   midi_port |-> json_get(root, "midi", "port", cfg.midi_port),
   midi_channel |->
     IF obj_get_obj(root, "midi")
       THEN clamp_int(json_get(root, "midi", "channel", cfg.midi_channel), 1, 16)
       ELSE cfg.midi_channel,
   osc_host |-> json_get(root, "osc", "host", cfg.osc_host),
   osc_port |->
     IF obj_get_obj(root, "osc")
       THEN clamp_int(json_get(root, "osc", "port", cfg.osc_port), 1, 65535)
       ELSE cfg.osc_port]

\* config_from_json (config.cpp lines 90-163): fails only on a non-object root
config_from_json(root, cfg) ==
  IF root.kind # "object"
    THEN [ok |-> FALSE, cfg |-> cfg]
    ELSE [ok |-> TRUE, cfg |-> Merged(root, cfg)]

\* a reply that is 200 whatever happened
http_statusMutant(ok) == 200

\* api_put_config lines 584, 594, 696: the status of the reply
http_status(ok) == IF ok THEN 200 ELSE 400

\* an audio section that also restarts the device when the master gain changed
audio_restart_neededMutant(prev, next) ==
  \/ prev.audio_backend # next.audio_backend
  \/ prev.audio_sample_rate # next.audio_sample_rate
  \/ prev.audio_device # next.audio_device
  \/ prev.audio_master_gain # next.audio_master_gain

\* api_put_config lines 615-618
audio_restart_needed(prev, next) ==
  \/ prev.audio_backend # next.audio_backend
  \/ prev.audio_sample_rate # next.audio_sample_rate
  \/ prev.audio_device # next.audio_device

\* api_put_config lines 631-632
midi_changed(prev, next) ==
  \/ prev.enable_midi # next.enable_midi
  \/ prev.midi_port # next.midi_port
  \/ prev.midi_channel # next.midi_channel

\* api_put_config lines 642-643
osc_changed(prev, next) ==
  \/ prev.enable_osc # next.enable_osc
  \/ prev.osc_host # next.osc_host
  \/ prev.osc_port # next.osc_port

\* api_put_config lines 659-663
bpf_tunables_changed(prev, next) ==
  \/ prev.bpf_enabled_mask # next.bpf_enabled_mask
  \/ prev.bpf_sample_interval_ms # next.bpf_sample_interval_ms

CInit ==
  /\ QParked /\ LegacyParked /\ TimeParked /\ EngineParked
  /\ cfg_ = DefaultConfig
  /\ running_ = TRUE /\ stop_ = FALSE /\ started = TRUE /\ torn = FALSE
  /\ device_inited \in BOOLEAN
  /\ bpf_ok \in BOOLEAN
  /\ midi_seq = FALSE /\ osc_fd = FALSE
  /\ err_ = [audio |-> IF device_inited THEN "" ELSE "audio init failed",
             midi |-> "", osc |-> "",
             bpf |-> IF bpf_ok THEN "" ELSE "bpf init failed"]
  /\ fake_running_ = FALSE /\ fake_ = 0 /\ fake_pc = [i \in 1..MaxFake |-> "none"]
  /\ music_ = TRUE /\ sampler_ = TRUE
  /\ music_pc = "check" /\ music_cfg = DefaultConfig /\ sampler_pc = "check"
  /\ m_pc = "idle" /\ m_cfg = DefaultConfig /\ m_new = 0 /\ m_calls = 1
  /\ h_pc = "idle" /\ h_prev = DefaultConfig /\ h_next = DefaultConfig
  /\ h_new = 0 /\ h_ops = 0
  /\ bpm_ = DefaultConfig.bpm /\ key_midi_ = DefaultConfig.key_midi
  /\ density_ = DefaultConfig.density /\ smoothing_ = DefaultConfig.smoothing
  /\ master_gain = DefaultConfig.audio_master_gain
  /\ bpf_map = make_bpf_cfg(DefaultConfig)
  /\ op = [name |-> "none", kind |-> "", sec |-> "", key |-> "", val |-> 0]
  /\ status = 0 /\ pre = Live /\ touched = {} /\ nops = 0

\* which outcomes a component start can have in this call: it comes up or it does
\* not when the call starts it, and there is nothing to decide when it does not
Outcomes(starts) == IF starts THEN BOOLEAN ELSE {FALSE}

\* api_put_config lines 599-697 for an accepted patch: prev is the snapshot, next
\* the merged config; aok, mok, ook, bok say whether the audio device, the MIDI
\* port, the OSC socket and the probe come up if this call starts them
ApplyConfig(prev, next, aok, mok, ook, bok) ==
  LET audio_enable_changed == prev.enable_audio # next.enable_audio
      audio_restart == ~audio_enable_changed /\ next.enable_audio
                       /\ audio_restart_needed(prev, next)
      midi_ch == midi_changed(prev, next)
      osc_ch == osc_changed(prev, next)
      bpf_enable_changed == prev.enable_bpf # next.enable_bpf
      bpf_after == IF bpf_enable_changed THEN (next.enable_bpf /\ bok) ELSE bpf_ok
      bpf_apply == ~bpf_enable_changed /\ next.enable_bpf
                   /\ bpf_tunables_changed(prev, next)
      want_fake == next.enable_fake /\ ~bpf_after
      fake_spawn == want_fake /\ ~fake_running_
      fake_join == (fake_spawn \/ ~want_fake) /\ fake_ # 0
      fake_free == { j \in 1..MaxFake : JoinedFakePc[j] = "none" }
      fake_new == CHOOSE i \in fake_free : \A j \in fake_free : i <= j
  IN
  /\ fake_spawn => fake_free # {}
  /\ bpm_' = next.bpm /\ key_midi_' = next.key_midi
  /\ density_' = next.density /\ smoothing_' = next.smoothing
  /\ master_gain' = next.audio_master_gain
  /\ device_inited' =
       IF audio_enable_changed
         THEN (IF next.enable_audio THEN (device_inited \/ aok) ELSE FALSE)
         ELSE IF audio_restart THEN aok ELSE device_inited
  /\ midi_seq' = IF midi_ch THEN (next.enable_midi /\ mok) ELSE midi_seq
  /\ osc_fd' = IF osc_ch THEN (next.enable_osc /\ ook) ELSE osc_fd
  /\ bpf_ok' = bpf_after
  /\ \E ea \in {IF (audio_enable_changed /\ next.enable_audio) \/ audio_restart
                  THEN start_err(err_, "audio",
                                 (audio_enable_changed /\ device_inited) \/ aok)
                  ELSE err_} :
     \E em \in {IF midi_ch /\ next.enable_midi THEN start_err(ea, "midi", mok)
                                                ELSE ea} :
     \E eo \in {IF osc_ch /\ next.enable_osc THEN start_err(em, "osc", ook) ELSE em} :
       err_' = IF bpf_enable_changed /\ next.enable_bpf
                 THEN start_err(eo, "bpf", bok) ELSE eo
  /\ bpf_map' =
       IF bpf_enable_changed
         THEN (IF bpf_after THEN make_bpf_cfg(next) ELSE bpf_map)
         ELSE IF bpf_apply /\ bpf_ok THEN make_bpf_cfg(next) ELSE bpf_map
  /\ fake_running_' = want_fake
  /\ fake_' = IF fake_spawn THEN fake_new ELSE IF want_fake THEN fake_ ELSE 0
  /\ fake_pc' = IF fake_spawn THEN [JoinedFakePc EXCEPT ![fake_new] = "check"]
                ELSE IF want_fake THEN fake_pc ELSE JoinedFakePc
  /\ touched' =
       (IF audio_enable_changed \/ audio_restart THEN {"audio"} ELSE {})
       \cup (IF midi_ch THEN {"midi"} ELSE {})
       \cup (IF osc_ch THEN {"osc"} ELSE {})
       \cup (IF bpf_enable_changed THEN {"bpf"} ELSE {})
       \cup (IF fake_spawn \/ fake_join THEN {"fake"} ELSE {})
  /\ cfg_' = next

\* api_put_config (app.cpp lines 581-698) for the patch p
ApiPutConfig(p) ==
  /\ op' = p
  /\ pre' = Live
  /\ nops' = nops + 1
  /\ \E parsed \in {config_from_json(p, cfg_)} :
       /\ status' = http_status(p.kind = "object" /\ parsed.ok)
       /\ IF ~(p.kind = "object" /\ parsed.ok)
            THEN /\ touched' = {}
                 /\ UNCHANGED <<cfg_, bpm_, key_midi_, density_, smoothing_,
                                master_gain, device_inited, midi_seq, osc_fd,
                                bpf_ok, bpf_map, fake_running_, fake_, fake_pc,
                                err_>>
            ELSE \E aok \in Outcomes(parsed.cfg.enable_audio
                                     /\ (~cfg_.enable_audio
                                         \/ audio_restart_needed(cfg_, parsed.cfg))),
                    mok \in Outcomes(parsed.cfg.enable_midi
                                     /\ midi_changed(cfg_, parsed.cfg)),
                    ook \in Outcomes(parsed.cfg.enable_osc
                                     /\ osc_changed(cfg_, parsed.cfg)),
                    bok \in Outcomes(parsed.cfg.enable_bpf /\ ~cfg_.enable_bpf) :
                   ApplyConfig(cfg_, parsed.cfg, aok, mok, ook, bok)
  /\ UNCHANGED notCtl

\* PUT /api/config with each kind of body
PutConfigNumber ==
  /\ nops < MaxCtlOps
  /\ \E p \in NumberPatches : ApiPutConfig(p)

PutConfigFlag ==
  /\ nops < MaxCtlOps
  /\ \E p \in FlagPatches : ApiPutConfig(p)

PutConfigString ==
  /\ nops < MaxCtlOps
  /\ \E p \in StringPatches : ApiPutConfig(p)

PutConfigNonObject ==
  /\ nops < MaxCtlOps
  /\ \E p \in NonObjectPatches : ApiPutConfig(p)

\* the presets api_select_preset knows, with their density and smoothing
\* (app.cpp lines 489-501, hundredths)
PresetTableMutant ==
  [ambient |-> [density |-> 20, smoothing |-> 92],
   percussive |-> [density |-> 35, smoothing |-> 80],
   arp |-> [density |-> 55, smoothing |-> 60],
   drone |-> [density |-> 10, smoothing |-> 95]]

PresetTable ==
  [ambient |-> [density |-> 20, smoothing |-> 92],
   percussive |-> [density |-> 80, smoothing |-> 35],
   arp |-> [density |-> 55, smoothing |-> 60],
   drone |-> [density |-> 10, smoothing |-> 95]]

\* api_select_preset (app.cpp lines 480-513); the handler replies 400 on failure
SelectPreset ==
  /\ nops < MaxCtlOps
  /\ \E name \in {"ambient", "percussive", "arp", "drone", "nope"} :
       /\ op' = [name |-> "preset_select", kind |-> "", sec |-> "", key |-> name,
                 val |-> 0]
       /\ IF name \notin DOMAIN PresetTable
            THEN /\ status' = 400
                 /\ UNCHANGED <<cfg_, density_, smoothing_>>
            ELSE /\ status' = 200
                 /\ cfg_' = [cfg_ EXCEPT !.preset = name,
                                         !.density = PresetTable[name].density,
                                         !.smoothing = PresetTable[name].smoothing]
                 /\ density_' = PresetTable[name].density
                 /\ smoothing_' = PresetTable[name].smoothing
  /\ pre' = Live
  /\ nops' = nops + 1
  /\ touched' = {}
  /\ UNCHANGED <<bpm_, key_midi_, master_gain, device_inited, midi_seq, osc_fd,
                 bpf_ok, bpf_map, fake_running_, fake_, fake_pc, err_>>
  /\ UNCHANGED notCtl

\* api_audio_set_device (app.cpp lines 559-579): store the device, restart the
\* audio engine when audio is enabled
AudioSetDevice ==
  /\ nops < MaxCtlOps
  /\ \E device \in {"hw:1", "hw:2"}, aok \in BOOLEAN :
       /\ op' = [name |-> "audio_set_device", kind |-> "", sec |-> "",
                 key |-> device, val |-> 0]
       /\ cfg_' = [cfg_ EXCEPT !.audio_device = device]
       /\ density_' = cfg_.density /\ smoothing_' = cfg_.smoothing
       /\ IF cfg_.enable_audio
            THEN /\ device_inited' = aok
                 /\ err_' = start_err(err_, "audio", aok)
                 /\ master_gain' = cfg_.audio_master_gain
                 /\ touched' = {"audio"}
            ELSE /\ UNCHANGED <<device_inited, master_gain, err_>>
                 /\ touched' = {}
  /\ status' = 200
  /\ pre' = Live
  /\ nops' = nops + 1
  /\ UNCHANGED <<bpm_, key_midi_, midi_seq, osc_fd, bpf_ok, bpf_map,
                 fake_running_, fake_, fake_pc>>
  /\ UNCHANGED notCtl

CNext ==
  \/ PutConfigNumber \/ PutConfigFlag \/ PutConfigString \/ PutConfigNonObject
  \/ SelectPreset \/ AudioSetDevice

SpecCtl == CInit /\ [][CNext]_vars

(***************************************************************************)
(* Claims about the control surface, checked under SpecCtl.                *)
(***************************************************************************)
\* the config field a one-key numeric patch addresses, "" for any other patch
NumericField(p) ==
  IF p.name # "put_config" \/ p.kind # "object" THEN ""
  ELSE IF p.key \in {"bpm", "key_midi"} /\ p.sec \in {"music", ""} THEN p.key
  ELSE IF p.sec = "music" /\ p.key \in {"density", "smoothing"} THEN p.key
  ELSE IF p.sec = "audio" /\ p.key = "sample_rate" THEN "audio_sample_rate"
  ELSE IF p.sec = "audio" /\ p.key = "master_gain" THEN "audio_master_gain"
  ELSE IF p.sec = "midi" /\ p.key = "channel" THEN "midi_channel"
  ELSE IF p.sec = "osc" /\ p.key = "port" THEN "osc_port"
  ELSE IF p.sec = "listen" /\ p.key = "port" THEN "listen_port"
  ELSE IF p.sec = "bpf" /\ p.key = "sample_interval_ms" THEN "bpf_sample_interval_ms"
  ELSE ""

\* the bounds of the data model (bpm in tenths; density, smoothing, gain in
\* hundredths)
DataModelRange ==
  [bpm |-> <<10, 4000>>, key_midi |-> <<0, 127>>, density |-> <<0, 100>>,
   smoothing |-> <<0, 100>>, audio_sample_rate |-> <<8000, 192000>>,
   audio_master_gain |-> <<0, 200>>, midi_channel |-> <<1, 16>>,
   osc_port |-> <<1, 65535>>, listen_port |-> <<1, 65535>>,
   bpf_sample_interval_ms |-> <<10, 5000>>]

\* the patch carries a value outside the data model: bpm outside the open
\* interval (1, 400), any other number outside its closed range
ViolatesBound(p) ==
  /\ NumericField(p) # ""
  /\ IF NumericField(p) = "bpm"
       THEN p.val <= DataModelRange.bpm[1] \/ p.val >= DataModelRange.bpm[2]
       ELSE \/ p.val < DataModelRange[NumericField(p)][1]
            \/ p.val > DataModelRange[NumericField(p)][2]

\* the end of the closed range nearest to the value of the patch
NearestBound(p) ==
  IF p.val < DataModelRange[NumericField(p)][1]
    THEN DataModelRange[NumericField(p)][1]
  ELSE IF p.val > DataModelRange[NumericField(p)][2]
    THEN DataModelRange[NumericField(p)][2]
  ELSE p.val

\* the hot controls hold what the stored config holds
AtomicsFollowConfig ==
  /\ bpm_ = cfg_.bpm /\ key_midi_ = cfg_.key_midi
  /\ density_ = cfg_.density /\ smoothing_ = cfg_.smoothing
  /\ master_gain = cfg_.audio_master_gain

C8_NonObjectPatchRejected ==
  (op.name = "put_config" /\ op.kind # "object") => (status = 400 /\ Live = pre)

\* C8 witness: a non-object patch arrived after an operation that had changed
\* the stored config.
C8_Witness ==
  /\ nops = 2 /\ op.name = "put_config" /\ op.kind \in {"array", "number", "null"}
  /\ cfg_ # DefaultConfig

\* C9: after any sequence of config_put, preset_select and audio_set_device from
\* the default config, the stored config and the hot controls are within the data
\* model: bpm strictly between 1 and 400, every other number in its closed range.
C9_DataModelBoundsHold ==
  /\ cfg_.bpm > 10 /\ cfg_.bpm < 4000
  /\ bpm_ > 10 /\ bpm_ < 4000
  /\ \A f \in DOMAIN DataModelRange \ {"bpm"} :
       cfg_[f] >= DataModelRange[f][1] /\ cfg_[f] <= DataModelRange[f][2]
  /\ key_midi_ >= 0 /\ key_midi_ <= 127
  /\ density_ >= 0 /\ density_ <= 100
  /\ smoothing_ >= 0 /\ smoothing_ <= 100
  /\ master_gain >= 0 /\ master_gain <= 200

\* the patch addresses only bpm, key, density, smoothing or master gain
HotOnly(p) ==
  NumericField(p) \in {"bpm", "key_midi", "density", "smoothing", "audio_master_gain"}

\* C10: an accepted config_put stops or (re)starts a component only when that
\* component's own settings changed; an untouched component keeps its running
\* state; a change of the probe's mask or interval alone is written to the config
\* map of a running probe; and a patch of only bpm, key, density, smoothing or
\* master gain updates the hot controls and stops or restarts nothing.
C10_RestartOnlyOnOwnChange ==
  (op.name = "put_config" /\ status = 200) =>
    /\ "audio" \in touched =>
         \/ pre.cfg.audio_backend # cfg_.audio_backend
         \/ pre.cfg.audio_sample_rate # cfg_.audio_sample_rate
         \/ pre.cfg.audio_device # cfg_.audio_device
         \/ pre.cfg.enable_audio # cfg_.enable_audio
    /\ "midi" \in touched =>
         \/ pre.cfg.midi_port # cfg_.midi_port
         \/ pre.cfg.midi_channel # cfg_.midi_channel
         \/ pre.cfg.enable_midi # cfg_.enable_midi
    /\ "osc" \in touched =>
         \/ pre.cfg.osc_host # cfg_.osc_host
         \/ pre.cfg.osc_port # cfg_.osc_port
         \/ pre.cfg.enable_osc # cfg_.enable_osc
    /\ "bpf" \in touched => pre.cfg.enable_bpf # cfg_.enable_bpf
    /\ "audio" \notin touched => device_inited = pre.audio
    /\ "midi" \notin touched => midi_seq = pre.midi
    /\ "osc" \notin touched => osc_fd = pre.osc
    /\ "bpf" \notin touched => bpf_ok = pre.bpf
    /\ ("bpf" \notin touched /\ bpf_ok /\ cfg_.enable_bpf) =>
         bpf_map = make_bpf_cfg(cfg_)
    /\ HotOnly(op) =>
         /\ touched = {}
         /\ AtomicsFollowConfig
         /\ device_inited = pre.audio /\ midi_seq = pre.midi
         /\ osc_fd = pre.osc /\ bpf_ok = pre.bpf
         /\ fake_running_ = pre.fake_running /\ fake_ = pre.fake

\* C10 witness: with the audio device running, a patch changed the master gain
\* only; the gain control moved and nothing was stopped or started.
C10_Witness ==
  /\ nops = 2 /\ op.name = "put_config" /\ op.key = "master_gain" /\ status = 200
  /\ master_gain # pre.master_gain /\ device_inited /\ pre.audio
  /\ touched = {}

\* C23: api_select_preset with ambient, percussive, arp or drone stores that name
\* as the preset and sets the stored and the live density / smoothing to 0.20/0.92,
\* 0.80/0.35, 0.55/0.60 or 0.10/0.95, leaving every other field of the config (and
\* every other live control) as it was; with any other name it fails and changes
\* nothing
C23_SelectPreset ==
  op.name = "preset_select" =>
    IF op.key \in {"ambient", "percussive", "arp", "drone"}
      THEN LET d == CASE op.key = "ambient" -> 20 [] op.key = "percussive" -> 80
                      [] op.key = "arp" -> 55 [] op.key = "drone" -> 10
               sm == CASE op.key = "ambient" -> 92 [] op.key = "percussive" -> 35
                       [] op.key = "arp" -> 60 [] op.key = "drone" -> 95
           IN /\ status = 200
              /\ cfg_ = [pre.cfg EXCEPT !.preset = op.key, !.density = d, !.smoothing = sm]
              /\ density_ = d /\ smoothing_ = sm
              /\ Live = [pre EXCEPT !.cfg = cfg_, !.density = d, !.smoothing = sm]
      ELSE status = 400 /\ Live = pre

\* percussive selected after an earlier operation had changed the stored config
C23_Witness ==
  /\ op.name = "preset_select" /\ op.key = "percussive"
  /\ pre.cfg # DefaultConfig /\ pre.cfg.preset # "percussive"
  /\ pre.density # 80
  /\ density_ = 80 /\ smoothing_ = 35 /\ cfg_.preset = "percussive"

(***************************************************************************)
(* The background loops against a clock: sampler_loop, music_loop and      *)
(* fake_loop sleep for their periods, and App::stop sets the stop flag at  *)
(* any moment.  Time is in milliseconds; the work a loop does between two  *)
(* sleeps takes no time next to the sleeps.                                *)
(***************************************************************************)
\* the clock stops counting at this many milliseconds after the stop flag was set
MaxClock == 600
\* number of bpm changes explored
MaxBpmSets == 1
\* besides running to the next wake-up, time advances in steps of this many ms
TimeQuantum == 50

notTime == <<qvars, avars, lvars, cvars, evars>>

\* a tick_ms whose upper clamp was dropped
tick_msMutant(bpm) ==
  LET b == IF ~(bpm > 10 /\ bpm < 4000) THEN 1100 ELSE bpm
      ms == 150000 \div b
  IN IF ms < 25 THEN 25 ELSE ms

\* MusicEngine::tick_ms (music.h lines 38-45), bpm in tenths: 60000 / bpm / 4
\* whole milliseconds, clamped to [25, 500]; a bpm outside (1, 400) counts as 110
tick_ms(bpm) ==
  LET b == IF ~(bpm > 10 /\ bpm < 4000) THEN 1100 ELSE bpm
      ms == 150000 \div b
  IN IF ms < 25 THEN 25 ELSE IF ms > 500 THEN 500 ELSE ms

\* values metrics_.bpm takes (tenths): 20, the default 110, 300, and the bound 400
BpmValues == {200, 1100, 3000, 4000}

\* how long a loop sleeps in one iteration: sampler_loop line 225, music_loop
\* lines 268-271, fake_loop line 328
SleepMs(l) ==
  IF l = "sampler" THEN 100 ELSE IF l = "fake" THEN 250 ELSE tick_ms(t_bpm)

TInit ==
  /\ QParked /\ device_inited = FALSE /\ AppParked /\ LegacyParked /\ CtlParked
  /\ EngineParked
  /\ t_stop = FALSE /\ t_since = 0
  /\ t_bpm \in BpmValues
  /\ \E fake_on \in BOOLEAN :
       t_pc = [l \in Loops |-> IF l = "fake" /\ ~fake_on THEN "none" ELSE "check"]
  /\ t_rem = [l \in Loops |-> 0]
  /\ t_exit = [l \in Loops |-> -1]
  /\ t_sets = 0

\* the loop test: while (!stop_) of sampler_loop line 224 and music_loop line 267,
\* while (!stop_ && fake_running_) of fake_loop line 327 (App::stop clears
\* fake_running_ when it sets stop_); a passed test is followed by the sleep
LoopTest(l) ==
  /\ t_pc[l] = "check"
  /\ IF t_stop
       THEN /\ t_pc' = [t_pc EXCEPT ![l] = "done"]
            /\ t_exit' = [t_exit EXCEPT ![l] = t_since]
            /\ t_rem' = t_rem
       ELSE /\ t_pc' = [t_pc EXCEPT ![l] = "sleep"]
            /\ t_rem' = [t_rem EXCEPT ![l] = SleepMs(l)]
            /\ t_exit' = t_exit
  /\ UNCHANGED <<t_stop, t_since, t_bpm, t_sets>>
  /\ UNCHANGED notTime

\* the sleep is over: sampler_loop and fake_loop run their body and loop;
\* music_loop breaks at line 272 when stop_ is set, else ticks and loops
LoopWake(l) ==
  /\ t_pc[l] = "sleep" /\ t_rem[l] = 0
  /\ IF l = "music" /\ t_stop
       THEN /\ t_pc' = [t_pc EXCEPT ![l] = "done"]
            /\ t_exit' = [t_exit EXCEPT ![l] = t_since]
       ELSE /\ t_pc' = [t_pc EXCEPT ![l] = "check"]
            /\ t_exit' = t_exit
  /\ UNCHANGED <<t_stop, t_since, t_bpm, t_rem, t_sets>>
  /\ UNCHANGED notTime

\* the shortest remaining sleep
MinRem ==
  CHOOSE m \in { t_rem[l] : l \in { k \in Loops : t_pc[k] = "sleep" } } :
    \A l \in { k \in Loops : t_pc[k] = "sleep" } : m <= t_rem[l]

\* time passes while every live loop sleeps, up to the next wake-up
Advance ==
  /\ \E l \in Loops : t_pc[l] = "sleep"
  /\ \A l \in Loops : t_pc[l] # "check" /\ (t_pc[l] = "sleep" => t_rem[l] > 0)
  /\ \E d \in { e \in 1..MinRem : e = MinRem \/ e % TimeQuantum = 0 } :
       /\ t_rem' = [l \in Loops |-> IF t_pc[l] = "sleep" THEN t_rem[l] - d
                                                          ELSE t_rem[l]]
       /\ t_since' = IF ~t_stop THEN t_since
                     ELSE IF t_since + d > MaxClock THEN MaxClock ELSE t_since + d
  /\ UNCHANGED <<t_stop, t_bpm, t_pc, t_exit, t_sets>>
  /\ UNCHANGED notTime

\* App::stop lines 193-196: the stop flag is set
SetStop ==
  /\ ~t_stop
  /\ t_stop' = TRUE
  /\ t_since' = 0
  /\ UNCHANGED <<t_bpm, t_pc, t_rem, t_exit, t_sets>>
  /\ UNCHANGED notTime

\* api_put_config line 604: metrics_.bpm.store(next.bpm)
SetBpm ==
  /\ t_sets < MaxBpmSets
  /\ t_sets' = t_sets + 1
  /\ \E b \in BpmValues \ {t_bpm} : t_bpm' = b
  /\ UNCHANGED <<t_stop, t_since, t_pc, t_rem, t_exit>>
  /\ UNCHANGED notTime

TNext ==
  \/ \E l \in Loops : LoopTest(l)
  \/ \E l \in Loops : LoopWake(l)
  \/ Advance \/ SetStop \/ SetBpm

SpecTime == TInit /\ [][TNext]_vars

(***************************************************************************)
(* Claims about stopping, checked under SpecTime.                          *)
(***************************************************************************)
\* C6 as stated: after the stop flag is set every background loop has exited
\* within 200 ms.
C6_ExitWithin200ms ==
  t_stop => /\ \A l \in Loops : t_exit[l] <= 200
            /\ t_since > 200 => \A l \in Loops : t_pc[l] \in {"none", "done"}

\* the longest sleep of each loop: 100 ms, 250 ms, and the largest tick, 500 ms
OwnPeriod == [sampler |-> 100, fake |-> 250, music |-> 500]

\* C6 amended: after the stop flag is set each background loop exits within one
\* period of its own: the sampler within 100 ms, the fake generator within 250 ms,
\* the sequencer within one tick, which is at most 500 ms.
C6_ExitWithinOwnPeriod ==
  t_stop => \A l \in Loops :
              /\ t_exit[l] <= OwnPeriod[l]
              /\ t_since > OwnPeriod[l] => t_pc[l] \in {"none", "done"}

\* C6 witness: the flag was set just as every loop went to sleep, the sequencer
\* for a 500 ms tick, and each loop exited a full period later.
C6_Witness ==
  /\ t_stop
  /\ t_exit["sampler"] = 100 /\ t_exit["fake"] = 250 /\ t_exit["music"] = 500

(***************************************************************************)
(* The sequencer: engine/music.cpp.  uint64_t values are strings of eight  *)
(* bytes, least significant first, so that the arithmetic of splitmix64    *)
(* wraps at 2^64 as the program's does.                                    *)
(***************************************************************************)
notMusic == <<qvars, avars, lvars, cvars, tvars, svars, xvars>>

\* ticks one engine is given, and ticks each engine is given when two engines
\* are compared
MaxTicks == 64
MaxTwinTicks == 2

\* the element of a one-element set; an operator below hands each value it uses
\* more than once through such a set, so that the value is computed once
The(S) == CHOOSE x \in S : TRUE

\* a ^ b on 4-bit values
XorNib ==
  LET bit(a, k) == (a \div k) % 2
  IN [a \in 0..15 |-> [b \in 0..15 |->
        ((bit(a, 1) + bit(b, 1)) % 2) + 2 * ((bit(a, 2) + bit(b, 2)) % 2)
        + 4 * ((bit(a, 4) + bit(b, 4)) % 2) + 8 * ((bit(a, 8) + bit(b, 8)) % 2)]]

\* a ^ b
Xor64(a0, b0) ==
  The({ LET x(i) == 16 * XorNib[a[i] \div 16][b[i] \div 16]
                    + XorNib[(a[i] % 16)][(b[i] % 16)]
        IN <<x(1), x(2), x(3), x(4), x(5), x(6), x(7), x(8)>> : a \in {a0}, b \in {b0} })

\* a >> k
Shr64(a0, k) ==
  The({ LET q == k \div 8
            lo == 2 ^ (k % 8)
            hi == 2 ^ (8 - (k % 8))
            byte(i) == IF i <= 8 THEN a[i] ELSE 0
            x(i) == (byte(i + q) \div lo) + (byte(i + q + 1) % lo) * hi
        IN <<x(1), x(2), x(3), x(4), x(5), x(6), x(7), x(8)>> : a \in {a0} })

\* the low n bytes of the number whose byte columns (before carrying) are cols
RECURSIVE Carry(_, _, _, _)
Carry(cols, n, i, c0) ==
  IF i > n THEN <<>>
  ELSE The({ <<(c % 256)>> \o Carry(cols, n, i + 1, c \div 256) : c \in {cols[i] + c0} })

\* a + b
Add64(a0, b0) ==
  The({ Carry(cols, 8, 1, 0) : cols \in {[k \in 1..8 |-> a0[k] + b0[k]]} })

\* the low n bytes of a * b
RECURSIVE ColSum(_, _, _, _)
ColSum(a, b, k, i) ==
  IF i > k \/ i > Len(a) THEN 0
  ELSE (IF k + 1 - i <= Len(b) THEN a[i] * b[k + 1 - i] ELSE 0) + ColSum(a, b, k, i + 1)

Mul64(a0, b0, n) ==
  The({ Carry(cols, n, 1, 0) :
          cols \in { The({ [k \in 1..n |-> ColSum(a, b, k, 1)] : a \in {a0}, b \in {b0} }) } })

\* (uint64_t)n for 0 <= n < 2^31
U64(n) == <<(n % 256), ((n \div 256) % 256), ((n \div 65536) % 256), n \div 16777216,
            0, 0, 0, 0>>

\* the constants of splitmix64 and of the seed mixing (music.cpp lines 34-36, 93-100)
K64 ==
  [init  |-> <<9, 201, 188, 243, 103, 230, 9, 106>>,      \* 0x6a09e667f3bcc909
   gamma |-> <<21, 124, 74, 127, 185, 121, 55, 158>>,     \* 0x9e3779b97f4a7c15
   mix1  |-> <<185, 229, 228, 28, 109, 71, 88, 191>>,     \* 0xbf58476d1ce4e5b9
   mix2  |-> <<235, 17, 49, 19, 187, 73, 208, 148>>,      \* 0x94d049bb133111eb
   rx    |-> <<29, 221, 108, 79, 145, 244, 69, 37>>,      \* 0x2545f4914f6cdd1d
   tx    |-> <<185, 121, 55, 158, 21, 124, 74, 127>>,     \* 0x7f4a7c159e3779b9
   csw   |-> <<109, 71, 88, 191, 185, 229, 228, 28>>,     \* 0x1ce4e5b9bf58476d
   io    |-> <<187, 73, 208, 148, 235, 17, 49, 19>>]      \* 0x133111eb94d049bb

\* z ^ (z >> k)
XorShr(z0, k) == The({ Xor64(z, Shr64(z, k)) : z \in {z0} })

\* splitmix64(x) (music.cpp lines 33-38): the advanced state x and the value returned
splitmix64(x) ==
  The({ [state |-> st,
         z |-> XorShr(Mul64(XorShr(Mul64(XorShr(st, 30), K64.mix1, 8), 27), K64.mix2, 8),
                      31)] : st \in {Add64(x, K64.gamma)} })

\* the values splitmix64 returns to the first n calls of frand01 on a seed
RECURSIVE draws(_, _)
draws(state, n) ==
  IF n = 0 THEN <<>>
  ELSE The({ <<d.z>> \o draws(d.state, n - 1) : d \in {splitmix64(state)} })

\* frand01 (music.cpp lines 40-44) of the splitmix64 value z is (z >> 11) / 2^53;
\* this is floor(frand01 * n), for 0 < n < 2^28
frand01(z, n) ==
  The({ ((p[7] + 256 * p[8] + 65536 * p[9]) \div 32) + p[10] * 524288 + p[11] * 134217728 :
          p \in {Mul64(Shr64(z, 11), U64(n), 11)} })

\* frand01 < num / den
Below(z, num, den) == frand01(z, den) < num

\* a seed that also depends on what the engine was given before
seed_ofMutant(bar, step, s) ==
  LET mix(v, k) == Mul64(U64(v), k, 8)
      x1 == Xor64(K64.init, mix(bar, K64.gamma))
      x2 == Xor64(x1, mix(step, K64.mix1))
      x3 == Xor64(x2, mix(s.exec * 10000, K64.mix2))
      x4 == Xor64(x3, mix(s.rx * 10000, K64.rx))
      x5 == Xor64(x4, mix(s.tx * 10000, K64.tx))
      x6 == Xor64(x5, mix(s.csw * 10000, K64.csw))
      x7 == Xor64(x6, mix(s.io * 10000, K64.io))
  IN IF mu_run = "mixed" THEN Add64(x7, U64(1)) ELSE x7

\* the seed of a tick (music.cpp lines 93-100); llround(s * 1e6) of a signal in
\* hundredths is s * 10000
seed_of(bar, step, s) ==
  LET mix(v, k) == Mul64(U64(v), k, 8)
      x1 == Xor64(K64.init, mix(bar, K64.gamma))
      x2 == Xor64(x1, mix(step, K64.mix1))
      x3 == Xor64(x2, mix(s.exec * 10000, K64.mix2))
      x4 == Xor64(x3, mix(s.rx * 10000, K64.rx))
      x5 == Xor64(x4, mix(s.tx * 10000, K64.tx))
      x6 == Xor64(x5, mix(s.csw * 10000, K64.csw))
      x7 == Xor64(x6, mix(s.io * 10000, K64.io))
  IN x7

\* music.cpp lines 18-31
scale_from_string(s) ==
  IF s \in {"pentatonic_minor", "penta_minor", "pentatonic"} THEN <<0, 3, 5, 7, 10>>
  ELSE IF s \in {"natural_minor", "minor"} THEN <<0, 2, 3, 5, 7, 8, 10>>
  ELSE IF s = "dorian" THEN <<0, 2, 3, 5, 7, 9, 10>>
  ELSE <<0, 3, 5, 7, 10>>

\* music.cpp lines 46-52; degree is never negative where tick calls it
pick_note(key_midi, sc, degree, octave) ==
  IF Len(sc) <= 0 THEN clamp_int(key_midi, 0, 127)
  ELSE clamp_int(key_midi + sc[(degree % Len(sc)) + 1] + octave * 12, 0, 127)

\* music.cpp lines 54-60: the NoteEvent appended
push_note(midi, vel, dur_s) ==
  [midi |-> clamp_int(midi, 0, 127),
   velocity |-> clamp_int(vel, 0, 1000000),
   dur_s |-> IF dur_s < 20000 THEN 20000 ELSE dur_s]

\* a clamp01 that lets every value through
clamp01Mutant(v) == v

\* clamp01 (music.cpp line 11) of a value in millionths
clamp01(v) == clamp_int(v, 0, 1000000)

\* max of the five signals (music.cpp line 73)
Activity(s) ==
  CHOOSE m \in {s.exec, s.rx, s.tx, s.csw, s.io} :
    \A v \in {s.exec, s.rx, s.tx, s.csw, s.io} : v <= m

\* music.cpp lines 104-125: the notes and the synth parameters of an ambient
\* tick; z[k] is the value behind the k-th call of frand01
ambient(step, s, cfg, sc, seed, sp) ==
  The({ LET dens == cfg.density
            hit1 == Below(z[1], dens * (1200 + 88 * Activity(s)) * 35, 100000000)
            vel == clamp01(120000 + 70 * (65 * s.rx + 35 * s.tx))
            dur == clamp_int(200000 + (7 * (4000 + 60 * s.rx) * (3000 + 70 * dens)) \div 1000,
                             100000, 1100000)
            n1 == IF hit1
                  THEN <<push_note(pick_note(cfg.key_midi, sc, frand01(z[2], Len(sc)),
                                             frand01(z[3], 3)), vel, dur)>>
                  ELSE <<>>
            hit2 == Below(z[IF hit1 THEN 4 ELSE 2], dens * s.exec * 18, 1000000)
            n2 == IF hit2
                  THEN <<push_note(pick_note(cfg.key_midi, sc, 0, 1), 420000, 350000),
                         push_note(pick_note(cfg.key_midi, sc, 2, 1), 300000, 350000)>>
                  ELSE <<>>
        IN [notes |-> n1 \o n2,
            synth |-> [sp EXCEPT !.reverb_mix01 = clamp01(380000 + 3500 * s.rx),
                                 !.delay_mix01 = clamp01(100000 + 2200 * s.tx)]]
        : z \in {draws(seed, 4)} })

\* music.cpp lines 126-154
percussive(step, s, cfg, sc, seed, sp) ==
  The({ LET dens == cfg.density
            beat == IF step % 4 = 0 THEN 1 ELSE 0
            hit1 == beat = 1 /\ Below(z[1], dens * (500 + 95 * s.exec) * 65, 100000000)
            n1 == IF hit1
                  THEN <<push_note(clamp_int(cfg.key_midi - 24, 0, 127),
                                   clamp01(350000 + 5500 * s.exec), 80000)>>
                  ELSE <<>>
            k2 == beat + 1
            hit2 == Below(z[k2], dens * (1000 + 90 * s.csw) * 95, 100000000)
            n2 == IF hit2
                  THEN <<push_note(pick_note(cfg.key_midi, sc, frand01(z[k2 + 1], Len(sc)),
                                             3 + (step % 2)),
                                   clamp01(180000 + 7500 * s.csw), 50000)>>
                  ELSE <<>>
            k3 == IF hit2 THEN k2 + 2 ELSE k2 + 1
            hit3 == Below(z[k3], dens * (2000 + 90 * (s.rx + s.tx)) * 35, 200000000)
            n3 == IF hit3
                  THEN <<push_note(pick_note(cfg.key_midi, sc, frand01(z[k3 + 1], Len(sc)), 2),
                                   clamp01(100000 + 3000 * (s.rx + s.tx)), 70000)>>
                  ELSE <<>>
        IN [notes |-> n1 \o n2 \o n3,
            synth |-> [sp EXCEPT !.cutoff01 = clamp01(620000 + 3000 * s.io),
                                 !.reverb_mix01 = clamp01(100000 + 1500 * s.rx),
                                 !.delay_mix01 = clamp01(60000 + 1000 * s.tx)]]
        : z \in {draws(seed, 5)} })

\* music.cpp lines 155-178; gate = (rx + tx) / 2 is kept as rx + tx
arp(step, s, cfg, sc, seed, sp) ==
  The({ LET dens == cfg.density
            kPattern == <<0, 1, 2, 1>>
            pdeg == kPattern[(step % 4) + 1]
            gate2 == s.rx + s.tx
            open == gate2 > 10
            hit1 == open /\ Below(z[1], dens * (4000 + 80 * gate2), 2000000)
            n1 == IF hit1
                  THEN <<push_note(pick_note(cfg.key_midi, sc, pdeg, 2 + ((step \div 4) % 2)),
                                   clamp01(120000 + 3750 * gate2), 120000)>>
                  ELSE <<>>
            hit2 == step = 0 /\ Below(z[IF open THEN 2 ELSE 1],
                                      dens * (1000 + 90 * s.exec) * 6, 10000000)
            n2 == IF hit2
                  THEN <<push_note(pick_note(cfg.key_midi, sc, 0, 1), 450000, 200000),
                         push_note(pick_note(cfg.key_midi, sc, 2, 1), 300000, 200000)>>
                  ELSE <<>>
        IN [notes |-> n1 \o n2,
            synth |-> [sp EXCEPT !.reverb_mix01 = clamp01(180000 + 2000 * s.rx),
                                 !.delay_mix01 = clamp01(220000 + 3500 * s.tx)]]
        : z \in {draws(seed, 2)} })

\* a drone whose step-8 note does not ask for activity
droneMutant(step, s, cfg, sc, seed, sp) ==
  The({ LET dens == cfg.density
            n1 == IF step = 0
                  THEN <<push_note(clamp_int(cfg.key_midi - 24, 0, 127),
                                   clamp01(80000 + 2800 * s.io), 2300000)>>
                  ELSE <<>>
            n2 == IF step = 8
                  THEN <<push_note(clamp_int(cfg.key_midi - 12, 0, 127),
                                   clamp01(50000 + 2000 * Activity(s)), 1600000)>>
                  ELSE <<>>
            hit == Below(z[1], dens * (1000 + 95 * (s.rx + s.tx)) * 25, 200000000)
            n3 == IF hit
                  THEN <<push_note(pick_note(cfg.key_midi, sc, frand01(z[2], Len(sc)), 3),
                                   clamp01(50000 + 1750 * (s.rx + s.tx)), 400000)>>
                  ELSE <<>>
        IN [notes |-> n1 \o n2 \o n3,
            synth |-> [cutoff01 |-> clamp01(180000 + 7800 * s.io),
                       resonance01 |-> clamp01(300000 + 5500 * s.exec),
                       delay_mix01 |-> clamp01(50000 + 1000 * s.tx),
                       reverb_mix01 |-> clamp01(450000 + 2500 * s.rx)]]
        : z \in {draws(seed, 2)} })

\* music.cpp lines 179-202: the branch of "drone" and of every preset name
\* that is none of ambient, percussive, arp
drone(step, s, cfg, sc, seed, sp) ==
  The({ LET dens == cfg.density
            n1 == IF step = 0
                  THEN <<push_note(clamp_int(cfg.key_midi - 24, 0, 127),
                                   clamp01(80000 + 2800 * s.io), 2300000)>>
                  ELSE <<>>
            n2 == IF step = 8 /\ Activity(s) > 10
                  THEN <<push_note(clamp_int(cfg.key_midi - 12, 0, 127),
                                   clamp01(50000 + 2000 * Activity(s)), 1600000)>>
                  ELSE <<>>
            hit == Below(z[1], dens * (1000 + 95 * (s.rx + s.tx)) * 25, 200000000)
            n3 == IF hit
                  THEN <<push_note(pick_note(cfg.key_midi, sc, frand01(z[2], Len(sc)), 3),
                                   clamp01(50000 + 1750 * (s.rx + s.tx)), 400000)>>
                  ELSE <<>>
        IN [notes |-> n1 \o n2 \o n3,
            synth |-> [cutoff01 |-> clamp01(180000 + 7800 * s.io),
                       resonance01 |-> clamp01(300000 + 5500 * s.exec),
                       delay_mix01 |-> clamp01(50000 + 1000 * s.tx),
                       reverb_mix01 |-> clamp01(450000 + 2500 * s.rx)]]
        : z \in {draws(seed, 2)} })

\* a silence gate that only holds back the ambient preset
silent_by_defaultMutant(preset) == preset = "ambient"

\* music.cpp line 83
silent_by_default(preset) == preset # "drone"

\* a cursor whose bar does not follow the wrap of step
advanceMutant(bar, step) ==
  [bar |-> bar, step |-> (step + 1) % 16]

\* music.cpp lines 86-87 and 206-207: step_ = (step_ + 1) & 15; if (step_ == 0) bar_++
advance(bar, step) ==
  [bar |-> IF (step + 1) % 16 = 0 THEN bar + 1 ELSE bar, step |-> (step + 1) % 16]

\* MusicEngine::tick (music.cpp lines 64-210) at cursor (bar, step): the frame
\* returned and the cursor left behind
tick(bar, step, s, cfg_in) ==
  The({ [notes |-> f.notes, synth |-> f.synth, next |-> advance(bar, step)] :
    f \in { LET cfg == [cfg_in EXCEPT !.density = clamp_int(cfg_in.density, 0, 100),
                                      !.key_midi = clamp_int(cfg_in.key_midi, 0, 127)]
                sc == scale_from_string(cfg.scale)
                sp == [DefaultSynth EXCEPT
                         !.cutoff01 = clamp01(300000 + 6000 * s.io + 750 * (s.rx + s.tx)),
                         !.resonance01 = clamp01(180000 + 5500 * s.exec)]
                seed == seed_of(bar, step, s)
            IN IF silent_by_default(cfg.preset) /\ Activity(s) < 3
                 THEN [notes |-> <<>>, synth |-> sp]
               ELSE IF cfg.preset = "ambient" THEN ambient(step, s, cfg, sc, seed, sp)
               ELSE IF cfg.preset = "percussive" THEN percussive(step, s, cfg, sc, seed, sp)
               ELSE IF cfg.preset = "arp" THEN arp(step, s, cfg, sc, seed, sp)
               ELSE drone(step, s, cfg, sc, seed, sp) } })

\* the arguments the caller hands to tick: Signal01 vectors from silence to
\* saturation (activity 0, 0.02, exactly 0.03, mixed, 1), every preset and an
\* unknown preset name, keys at and beyond both ends, densities in and out of range
Signal(e, r, t, c, i) == [exec |-> e, rx |-> r, tx |-> t, csw |-> c, io |-> i]
SignalSet ==
  {ZeroSignal, Signal(2, 2, 2, 2, 2), Signal(3, 0, 0, 0, 0), Signal(50, 20, 40, 10, 30),
   Signal(100, 100, 100, 100, 100)}
Presets == {"ambient", "percussive", "arp", "drone"}
Input(s, preset, key, scale, density) ==
  [set |-> TRUE, s |-> s,
   cfg |-> [key_midi |-> key, scale |-> scale, preset |-> preset, density |-> density]]
Inputs ==
  { Input(s, p, 62, "pentatonic_minor", 35) : s \in SignalSet, p \in Presets \cup {"nope"} }
  \cup { Input(Signal(100, 100, 100, 100, 100), p, k, "dorian", 100) :
           p \in Presets, k \in {0, 127} }
  \cup { Input(ZeroSignal, "drone", 62, "natural_minor", d) : d \in {-50, 50, 100, 150} }
  \cup { Input(Signal(2, 2, 2, 2, 2), "percussive", 62, "pentatonic_minor", 100),
         Input(Signal(100, 100, 100, 100, 100), "ambient", 200, "lydian", 150),
         Input(Signal(50, 20, 40, 10, 30), "arp", -5, "minor", 100) }

MInit ==
  /\ QParked /\ device_inited = FALSE /\ AppParked /\ LegacyParked /\ CtlParked
  /\ TimeParked /\ SignalsParked /\ ExtParked
  /\ bar_ = 0 /\ step_ = 0
  /\ mu_in = NoInput /\ mu_out = NoFrame /\ mu_ref = NoFrame
  /\ mu_n = 0 /\ mu_run = "zero"
  /\ mu_left = MaxTicks /\ mu_new = 0

\* music_loop lines 274-290: the caller snapshots the config and the signals
Feed ==
  /\ ~mu_in.set /\ ~mu_out.set /\ mu_left > 0
  /\ mu_in' \in Inputs
  /\ UNCHANGED <<bar_, step_, mu_out, mu_n, mu_run, mu_left, mu_ref, mu_new, notMusic>>

\* music_loop line 292: engine.tick(s01, mc)
Tick ==
  /\ mu_in.set
  /\ \E f \in {tick(bar_, step_, mu_in.s, mu_in.cfg)} :
       /\ bar_' = f.next.bar /\ step_' = f.next.step
       /\ mu_out' = [set |-> TRUE, s |-> mu_in.s, cfg |-> mu_in.cfg, bar |-> bar_,
                     step |-> step_, run |-> mu_run, notes |-> f.notes,
                     synth |-> f.synth]
       /\ mu_run' = IF mu_run = "noted" THEN "noted"
                    ELSE IF mu_in.s # ZeroSignal \/ mu_in.cfg.preset # "ambient"
                      THEN "mixed"
                    ELSE IF mu_run = "zero" /\ f.notes # <<>> THEN "noted"
                    ELSE mu_run
  /\ mu_in' = NoInput
  /\ mu_n' = mu_n + 1 /\ mu_left' = mu_left - 1
  /\ UNCHANGED <<mu_ref, mu_new, notMusic>>

\* music_loop lines 294-322: the caller hands the frame on and drops it
Consume ==
  /\ mu_out.set
  /\ mu_out' = NoFrame
  /\ UNCHANGED <<bar_, step_, mu_in, mu_n, mu_run, mu_left, mu_ref, mu_new, notMusic>>

MNext == Feed \/ Tick \/ Consume

SpecMusic == MInit /\ [][MNext]_vars

\* two engines, one after the other, each given a few ticks
TwinInit ==
  /\ QParked /\ device_inited = FALSE /\ AppParked /\ LegacyParked /\ CtlParked
  /\ TimeParked /\ SignalsParked /\ ExtParked
  /\ bar_ = 0 /\ step_ = 0
  /\ mu_in = NoInput /\ mu_out = NoFrame /\ mu_ref = NoFrame
  /\ mu_n = 0 /\ mu_run = "zero"
  /\ mu_left = MaxTwinTicks /\ mu_new = 1

\* a frame of the first engine is kept
Remember ==
  /\ mu_out.set /\ ~mu_ref.set /\ mu_new > 0
  /\ mu_ref' = mu_out
  /\ UNCHANGED <<bar_, step_, mu_in, mu_out, mu_n, mu_run, mu_left, mu_new, notMusic>>

\* music_loop line 260 on the next App::start: MusicEngine engine; (music.h 48-49)
Construct ==
  /\ mu_new > 0 /\ ~mu_in.set /\ ~mu_out.set
  /\ bar_' = 0 /\ step_' = 0
  /\ mu_n' = 0 /\ mu_run' = "zero"
  /\ mu_left' = MaxTwinTicks /\ mu_new' = mu_new - 1
  /\ UNCHANGED <<mu_in, mu_out, mu_ref, notMusic>>

TwinNext == Feed \/ Tick \/ Consume \/ Remember \/ Construct

SpecTwin == TwinInit /\ [][TwinNext]_vars

\* C13: counted from construction at (0, 0), after N ticks step = N mod 16 and
\* bar = floor(N / 16); step stays in 0..15; and every tick, whether it took the
\* silence path or a preset's path, left the cursor exactly one step after the
\* cursor it began with, the bar growing by one exactly when step wrapped to 0.
C13_CursorLaw ==
  /\ step_ \in 0..15
  /\ step_ = mu_n % 16 /\ bar_ = mu_n \div 16
  /\ mu_out.set =>
       /\ step_ = (mu_out.step + 1) % 16
       /\ bar_ = mu_out.bar + ((mu_out.step + 1) \div 16)

\* the 48th tick took the silence path and wrapped step from 15 to 0
C13_Witness ==
  /\ mu_out.set /\ mu_out.step = 15 /\ step_ = 0 /\ bar_ = mu_out.bar + 1 /\ mu_n = 48
  /\ mu_out.cfg.preset = "arp" /\ Activity(mu_out.s) < 3

\* C14: a tick under a preset other than drone whose activity is below 0.03
\* returned no note and the synth snapshot (cutoff and resonance from the signals,
\* delay and reverb at their defaults) and advanced the cursor; and as long as
\* every tick was all-zero ambient, none of them emitted a note.
C14_SilenceGate ==
  /\ mu_run # "noted"
  /\ (mu_out.set /\ mu_out.cfg.preset # "drone" /\ Activity(mu_out.s) < 3) =>
       /\ mu_out.notes = <<>>
       /\ mu_out.synth =
            [cutoff01 |-> 300000 + 6000 * mu_out.s.io + 750 * (mu_out.s.rx + mu_out.s.tx),
             resonance01 |-> 180000 + 5500 * mu_out.s.exec,
             delay_mix01 |-> 100000, reverb_mix01 |-> 150000]
       /\ <<bar_, step_>> # <<mu_out.bar, mu_out.step>>
       /\ 16 * bar_ + step_ = 16 * mu_out.bar + mu_out.step + 1

\* 64 all-zero ambient ticks in a row, none of which emitted
C14_Witness ==
  /\ mu_n = 64 /\ mu_run = "zero"
  /\ mu_out.set /\ mu_out.notes = <<>> /\ mu_out.cfg.preset = "ambient"

DroneBaselineTick ==
  /\ mu_out.set /\ mu_out.cfg.preset = "drone" /\ mu_out.cfg.key_midi = 62
  /\ mu_out.s = ZeroSignal

\* the root note of the baseline: key - 24, 2.3 s
IsRoot38(n) == n.midi = 38 /\ n.dur_s = 2300000

\* C16 as stated: at step 0 exactly one note, midi 38 for 2.3 s; at steps 1..8
\* no note.
C16_DroneBaselineEveryBar ==
  DroneBaselineTick =>
    /\ mu_out.step = 0 => Len(mu_out.notes) = 1 /\ IsRoot38(mu_out.notes[1])
    /\ mu_out.step \in 1..8 => mu_out.notes = <<>>

\* C16 amended: in the first bar of an engine the baseline is exact; in every
\* bar the step-0 tick emits the root first, no tick of steps 1..8 emits a
\* key - 12 note, and whatever else a tick emits is one network sprinkle: a
\* 0.40 s note three octaves above the key.
C16_DroneBaselineFirstBar ==
  DroneBaselineTick =>
    LET root == IF mu_out.step = 0 THEN 1 ELSE 0
    IN /\ mu_out.step \in 0..8 =>
            /\ Len(mu_out.notes) \in {root, root + 1}
            /\ root = 1 => IsRoot38(mu_out.notes[1])
            /\ Len(mu_out.notes) = root + 1 =>
                 /\ mu_out.notes[root + 1].dur_s = 400000
                 /\ mu_out.notes[root + 1].midi \in 98..108
       /\ (mu_out.bar = 0 /\ mu_out.step \in 0..8) => Len(mu_out.notes) = root

\* the step-8 tick of the first bar with no activity emitted nothing
C16_Witness ==
  /\ DroneBaselineTick /\ mu_out.bar = 0 /\ mu_out.step = 8 /\ mu_out.notes = <<>>

\* C17: every note of a frame has midi in 0..127, velocity in [0, 1] and a
\* duration of at least 0.02 s, and the four synth parameters are in [0, 1].
C17_FrameInRange ==
  mu_out.set =>
    /\ \A i \in 1..Len(mu_out.notes) :
         /\ mu_out.notes[i].midi \in 0..127
         /\ mu_out.notes[i].velocity \in 0..1000000
         /\ mu_out.notes[i].dur_s >= 20000
    /\ \A f \in DOMAIN mu_out.synth : mu_out.synth[f] \in 0..1000000

\* a frame at key 127 whose note was held at 127 and whose cutoff was held at 1
C17_Witness ==
  /\ mu_out.set /\ mu_out.cfg.key_midi = 127
  /\ \E i \in 1..Len(mu_out.notes) : mu_out.notes[i].midi = 127
  /\ mu_out.synth.cutoff01 = 1000000

(***************************************************************************)
(* The signal conditioner: engine/signals.cpp.                             *)
(***************************************************************************)
notSignals == <<qvars, avars, lvars, cvars, tvars, mvars, xvars>>

\* number of Signals::update calls explored
MaxUpdates == 3
\* width in bits of the totals explored (the program uses uint64_t)
CounterBits == 14

RECURSIVE GCD(_, _)
GCD(a, b) == IF b = 0 THEN a ELSE GCD(b, a % b)

\* the double n / d as a fraction in lowest terms with a positive denominator;
\* a division by zero (an infinity, or a NaN when n = 0) keeps den = 0
Frac(n, d) ==
  LET abs(x) == IF x < 0 THEN -x ELSE x
      g == GCD(abs(n), abs(d))
  IN IF d = 0 THEN [num |-> n, den |-> 0]
     ELSE IF n = 0 THEN [num |-> 0, den |-> 1]
     ELSE IF d < 0 THEN [num |-> (-n) \div g, den |-> (-d) \div g]
     ELSE [num |-> n \div g, den |-> d \div g]

\* a + b
FracAdd(a, b) ==
  IF a.den = 0 \/ b.den = 0 THEN [num |-> a.num + b.num, den |-> 0]
  ELSE LET l == (a.den * b.den) \div GCD(a.den, b.den)
       IN Frac(a.num * (l \div a.den) + b.num * (l \div b.den), l)

\* an update that divides by the dt it was given
effective_dtMutant(dt_s) == dt_s

\* signals.cpp line 39: if (dt_s <= 0.0) dt_s = 0.1
effective_dt(dt_s) == IF dt_s <= 0 THEN 1 ELSE dt_s

\* a rate taken from the total instead of its increase
rateMutant(cur, prev, dt_s, per) == Frac(cur * 10, dt_s * per)

\* signals.cpp lines 41-46: (double)(cur - prev) / dt_s, for a byte channel / 1024.0;
\* the subtraction is unsigned
rate(cur, prev, dt_s, per) ==
  Frac(((cur - prev + 2^CounterBits) % 2^CounterBits) * 10, dt_s * per)

\* clamp01 (signals.cpp lines 9-13) of a value in ten-thousandths
sig_clamp01(v) == IF v < 0 THEN 0 ELSE IF v > 10000 THEN 10000 ELSE v

\* log1p of a fraction v >= 0 up to a constant factor, in thousandths: log2(1 + v)
\* with the logarithm taken linear between two powers of two
RECURSIVE Log2Floor(_, _, _)
Log2Floor(n, d, k) == IF d * 2 ^ (k + 1) <= n THEN Log2Floor(n, d, k + 1) ELSE k
log1p(v) ==
  LET n == v.num + v.den
      k == Log2Floor(n, v.den, 0)
  IN 1000 * k + ((n - v.den * 2 ^ k) * 1000) \div (v.den * 2 ^ k)

\* a norm_log that returns the quotient as it is
norm_logMutant(v, v_max) ==
  IF v.num <= 0 THEN 0
  ELSE IF v.den = 0 THEN 10000
  ELSE (log1p(v) * 10000) \div log1p(Frac(v_max, 1))

\* signals.cpp lines 15-19: std::max(0.0, v) is 0 for a negative v and for a NaN,
\* and the quotient of an infinite v is clamped to 1; every v_max the program
\* passes is above 1e-9
norm_log(v, v_max) ==
  IF v.num <= 0 THEN 0
  ELSE IF v.den = 0 THEN 10000
  ELSE sig_clamp01((log1p(v) * 10000) \div log1p(Frac(v_max, 1)))

\* signals.cpp lines 21-25: alpha = clamp01(alpha) * 0.98, in ten-thousandths
ema(prev, x, alpha) ==
  LET a == (IF alpha < 0 THEN 0 ELSE IF alpha > 100 THEN 100 ELSE alpha) * 98
  IN (a * prev + (10000 - a) * x) \div 10000

\* the totals a caller passes: zero, the pair of the unit test (exec 100,
\* 10 KiB received), two later snapshots, and one near the top of the type
Totals(e, rx, tx, csw, br, bw) ==
  [exec_total |-> e, net_rx_bytes_total |-> rx, net_tx_bytes_total |-> tx,
   sched_switch_total |-> csw, blk_read_bytes_total |-> br, blk_write_bytes_total |-> bw]
TotalsSet ==
  {ZeroTotals, Totals(100, 10240, 0, 0, 0, 0), Totals(350, 12288, 2048, 9000, 4096, 1000),
   Totals(360, 12288, 2048, 9000, 4096, 1500), Totals(16000, 16383, 16383, 16000, 8192, 8192)}

\* dt (tenths of a second) and smoothing (hundredths) of a call: the sampler's
\* 0.1 s, 1 s and 2 s, a zero and a negative dt, smoothing inside and outside [0, 1]
Timing == {<<10, 0>>, <<10, 50>>, <<1, 100>>, <<0, 100>>, <<-10, 150>>, <<20, -50>>}

SInit ==
  /\ QParked /\ device_inited = FALSE /\ AppParked /\ LegacyParked /\ CtlParked
  /\ TimeParked /\ EngineParked

\* Signals::update(cur, dt_s, smoothing01) (signals.cpp lines 29-63)
Update ==
  /\ s_n < MaxUpdates
  /\ \E cur \in TotalsSet, t \in Timing :
       /\ s_arg' = [cur |-> cur, dt |-> t[1], smoothing |-> t[2], prev |-> prev_,
                    had_prev |-> has_prev_, v01 |-> v01_]
       /\ cur_' = cur
       /\ IF ~has_prev_
            THEN /\ prev_' = cur /\ has_prev_' = TRUE
                 /\ rates_' = ZeroRates /\ v01_' = ZeroSignal
            ELSE \E dt \in {effective_dt(t[1])} :
                 \E r \in {[f \in DOMAIN RateSource |->
                              rate(cur[RateSource[f]], prev_[RateSource[f]], dt,
                                   IF RateSource[f] \in ByteChannels THEN 1024 ELSE 1)]} :
                   /\ rates_' = r
                   /\ v01_' =
                        [exec |-> ema(v01_.exec, norm_log(r.exec_s, 250), t[2]),
                         rx |-> ema(v01_.rx, norm_log(r.rx_kbs, 50000), t[2]),
                         tx |-> ema(v01_.tx, norm_log(r.tx_kbs, 50000), t[2]),
                         csw |-> ema(v01_.csw, norm_log(r.csw_s, 120000), t[2]),
                         io |-> ema(v01_.io,
                                    norm_log(FracAdd(r.blk_r_kbs, r.blk_w_kbs), 80000),
                                    t[2])]
                   /\ prev_' = cur
                   /\ UNCHANGED has_prev_
  /\ s_n' = s_n + 1
  /\ UNCHANGED notSignals

SNext == Update

SpecSignals == SInit /\ [][SNext]_vars

\* the increase of a total over the last update, and the divisor of its channel
Increase(f) == s_arg.cur[RateSource[f]] - s_arg.prev[RateSource[f]]
Per(f) == IF RateSource[f] \in ByteChannels THEN 1024 ELSE 1

\* C18: the update that found no previous totals stored the given totals as
\* previous and left every rate and every Signal01 component at zero; an update
\* given dt <= 0 divided by 0.1 s: every rate has a non-zero denominator and is
\* the (unsigned) increase over 0.1 s, and the update ran to its end.
C18_FirstUpdateAndZeroDt ==
  /\ (s_n >= 1 /\ ~s_arg.had_prev) =>
       /\ has_prev_ /\ prev_ = s_arg.cur /\ cur_ = s_arg.cur
       /\ rates_ = ZeroRates /\ v01_ = ZeroSignal
  /\ (s_arg.had_prev /\ s_arg.dt <= 0) =>
       /\ \A f \in DOMAIN RateSource :
            /\ rates_[f].den > 0
            /\ rates_[f] = Frac(((Increase(f) + 2^CounterBits) % 2^CounterBits) * 10,
                                Per(f))
       /\ prev_ = s_arg.cur

\* an update with dt = 0 after the first one produced a rate above zero
C18_Witness ==
  /\ s_arg.had_prev /\ s_arg.dt = 0 /\ rates_.exec_s.num > 0 /\ v01_.exec > 0

\* C19: after an update with positive dt whose totals are not below the
\* previous ones, every rate is >= 0 and is (cur - prev) / dt for exec and csw
\* and (cur - prev) / dt / 1024 for the four byte channels.
C19_RatesOfIncrease ==
  (/\ s_arg.had_prev /\ s_arg.dt > 0
   /\ \A c \in Channels : s_arg.cur[c] >= s_arg.prev[c])
  => \A f \in DOMAIN RateSource :
       /\ rates_[f].num >= 0 /\ rates_[f].den > 0
       /\ rates_[f] = Frac(Increase(f) * 10, s_arg.dt * Per(f))

\* exec 0 -> 100 and rx bytes 0 -> 10240 over 1 s gave exec_s = 100, rx_kbs = 10
C19_Witness ==
  /\ s_arg.had_prev /\ s_arg.dt = 10 /\ s_arg.prev = ZeroTotals
  /\ s_arg.cur.exec_total = 100 /\ s_arg.cur.net_rx_bytes_total = 10240
  /\ rates_.exec_s = [num |-> 100, den |-> 1]
  /\ rates_.rx_kbs = [num |-> 10, den |-> 1]

base == <<qvars, avars, lvars, cvars, tvars, mvars, svars>>
notMetrics == <<base, fvars, dvars, ovars, kvars, zvars>>

\* writes explored (records the poller consumes and fake iterations together), and
\* snapshots explored
MaxWrites == 3
MaxSnapshots == 2

\* enum khor_event_type (khor.h line 20)
KHOR_EV_SAMPLE == 1

\* the field of the sample payload on_event adds to each total (collector.cpp 164-170)
SampleField ==
  [exec_total |-> "exec_count", net_rx_bytes_total |-> "net_rx_bytes",
   net_tx_bytes_total |-> "net_tx_bytes", sched_switch_total |-> "sched_switches",
   blk_read_bytes_total |-> "blk_read_bytes", blk_write_bytes_total |-> "blk_write_bytes",
   events_dropped |-> "lost_events"]

Payload(e, rx, tx, csw, br, bw, issue, lost) ==
  [exec_count |-> e, net_rx_bytes |-> rx, net_tx_bytes |-> tx, sched_switches |-> csw,
   blk_read_bytes |-> br, blk_write_bytes |-> bw, blk_issue_count |-> issue,
   lost_events |-> lost]

\* records handed to on_event: samples, and records whose type is not KHOR_EV_SAMPLE
\* with the same bytes in the union
RecordSet ==
  { [type |-> KHOR_EV_SAMPLE, sample |-> Payload(1, 1500, 64, 3, 512, 4096, 1, 2)],
    [type |-> 2, sample |-> Payload(7, 7, 7, 7, 7, 7, 7, 7)] }

\* what one iteration of fake_loop adds (app.cpp lines 329-334), for the greatest
\* value of each rand() % n
FakeAmounts ==
  { [exec_total |-> 1, net_rx_bytes_total |-> 1000 + rx, net_tx_bytes_total |-> 1000 + tx,
     sched_switch_total |-> 5 + csw, blk_read_bytes_total |-> 4096 * br,
     blk_write_bytes_total |-> 4096 * bw] :
      rx \in {59999}, tx \in {39999}, csw \in {0}, br \in {7}, bw \in {5} }

\* the order of the loads of sampler_loop (app.cpp lines 232-237) and of the adds of
\* fake_loop (lines 329-334)
ChannelOrder ==
  <<"exec_total", "net_rx_bytes_total", "net_tx_bytes_total", "sched_switch_total",
    "blk_read_bytes_total", "blk_write_bytes_total">>

\* the amount the k-th fetch_add of on_event adds for record e (collector.cpp
\* lines 162-170): 1 to events_total, then a field of the sample each
on_event_addMutant(k, e) ==
  IF k = 1 THEN 1
  ELSE IF k = 3 THEN e.sample.net_tx_bytes
  ELSE e.sample[SampleField[TotalOrder[k]]]

on_event_add(k, e) ==
  IF k = 1 THEN 1 ELSE e.sample[SampleField[TotalOrder[k]]]

\* the totals after on_event(ctx, data, size) has run for record e: the first
\* fetch_add always, the other seven when the record is a sample (line 163)
on_event(m, e) ==
  [f \in TotalNames |->
     LET k == CHOOSE i \in 1..8 : TotalOrder[i] = f
     IN IF k = 1 \/ e.type = KHOR_EV_SAMPLE THEN m[f] + on_event_add(k, e) ELSE m[f]]

\* what the rule of the totals gives for one record: one event, and the sample's
\* fields when the record is a sample
Expected(e) ==
  [events_total |-> 1,
   events_dropped |-> IF e.type = KHOR_EV_SAMPLE THEN e.sample.lost_events ELSE 0,
   exec_total |-> IF e.type = KHOR_EV_SAMPLE THEN e.sample.exec_count ELSE 0,
   net_rx_bytes_total |-> IF e.type = KHOR_EV_SAMPLE THEN e.sample.net_rx_bytes ELSE 0,
   net_tx_bytes_total |-> IF e.type = KHOR_EV_SAMPLE THEN e.sample.net_tx_bytes ELSE 0,
   sched_switch_total |-> IF e.type = KHOR_EV_SAMPLE THEN e.sample.sched_switches ELSE 0,
   blk_read_bytes_total |-> IF e.type = KHOR_EV_SAMPLE THEN e.sample.blk_read_bytes ELSE 0,
   blk_write_bytes_total |-> IF e.type = KHOR_EV_SAMPLE THEN e.sample.blk_write_bytes ELSE 0]

UInit ==
  /\ QParked /\ device_inited = FALSE /\ AppParked /\ LegacyParked /\ CtlParked
  /\ TimeParked /\ EngineParked

\* ring_buffer__poll calls on_event for the next record of the ring
OnEvent ==
  /\ rb_live /\ u_rec + u_fake < MaxWrites
  /\ \E e \in RecordSet :
       /\ metrics_' = on_event(metrics_, e)
       /\ u_sum' = [f \in TotalNames |-> u_sum[f] + Expected(e)[f]]
  /\ u_rec' = u_rec + 1
  /\ UNCHANGED <<rb_live, fk_live, sm_pc, sm_t, sm_cur, sm_grew, sm_n, u_fake, u_ctl,
                 notMetrics>>

\* one iteration of fake_loop (app.cpp lines 327-334): the loop test passes, the
\* sleep ends and the six totals are added to
FakeBodyAdd ==
  /\ fk_live /\ u_rec + u_fake < MaxWrites
  /\ \E a \in FakeAmounts :
       /\ metrics_' = [f \in TotalNames |->
                         IF f \in Channels THEN metrics_[f] + a[f] ELSE metrics_[f]]
       /\ u_sum' = [f \in TotalNames |-> u_sum[f] + (IF f \in Channels THEN a[f] ELSE 0)]
  /\ u_fake' = u_fake + 1
  /\ UNCHANGED <<rb_live, fk_live, sm_pc, sm_t, sm_cur, sm_grew, sm_n, u_rec, u_ctl,
                 notMetrics>>

\* sampler_loop lines 225-231: the sleep ends, Signals::Totals t is constructed
SamplerWake ==
  /\ sm_pc = 0 /\ sm_n < MaxSnapshots
  /\ sm_pc' = 1
  /\ sm_t' = ZeroTotals
  /\ UNCHANGED <<metrics_, rb_live, fk_live, sm_cur, sm_grew, sm_n, u_sum, u_rec,
                 u_fake, u_ctl, notMetrics>>

\* one load of sampler_loop (app.cpp lines 232-237); after the sixth, t is the
\* snapshot handed to Signals::update
SamplerLoad ==
  /\ sm_pc > 0
  /\ \E t \in {[sm_t EXCEPT ![ChannelOrder[sm_pc]] = metrics_[ChannelOrder[sm_pc]]]} :
       /\ sm_t' = t
       /\ IF sm_pc = 6
            THEN /\ sm_pc' = 0 /\ sm_cur' = t /\ sm_n' = sm_n + 1
                 /\ sm_grew' = (sm_grew \/ (sm_n >= 1 /\ \E c \in Channels : t[c] > sm_cur[c]))
            ELSE /\ sm_pc' = sm_pc + 1 /\ UNCHANGED <<sm_grew, sm_cur, sm_n>>
  /\ UNCHANGED <<metrics_, rb_live, fk_live, u_sum, u_rec, u_fake, u_ctl, notMetrics>>

\* BpfCollector::start (collector.cpp lines 88-205): a successful start spawns the
\* poller; it is handed &metrics_ and writes none of the totals
ProbeStartMutant ==
  /\ ~rb_live
  /\ rb_live' = TRUE
  /\ metrics_' = ZeroMetrics
  /\ u_ctl' = IF u_ctl = "stopped" THEN "restarted" ELSE u_ctl
  /\ UNCHANGED <<fk_live, sm_pc, sm_t, sm_cur, sm_grew, sm_n, u_sum, u_rec, u_fake,
                 notMetrics>>

ProbeStart ==
  /\ ~rb_live
  /\ rb_live' = TRUE
  /\ u_ctl' = IF u_ctl = "stopped" THEN "restarted" ELSE u_ctl
  /\ UNCHANGED <<metrics_, fk_live, sm_pc, sm_t, sm_cur, sm_grew, sm_n, u_sum, u_rec,
                 u_fake, notMetrics>>

\* BpfCollector::stop (collector.cpp lines 207-219): running = false, join the
\* poller, which returns from the callback it is in first
ProbeStop ==
  /\ rb_live
  /\ rb_live' = FALSE
  /\ u_ctl' = IF u_ctl = "none" THEN "stopped" ELSE u_ctl
  /\ UNCHANGED <<metrics_, fk_live, sm_pc, sm_t, sm_cur, sm_grew, sm_n, u_sum, u_rec,
                 u_fake, notMetrics>>

\* App::start lines 181-183 and api_put_config lines 674-680: the fake generator is
\* started, or fake_running_ is cleared and the thread joined
FakeToggle ==
  /\ fk_live' = ~fk_live
  /\ UNCHANGED <<metrics_, rb_live, sm_pc, sm_t, sm_cur, sm_grew, sm_n, u_sum, u_rec,
                 u_fake, u_ctl, notMetrics>>

\* App::stop followed by App::start (app.cpp lines 147-218): every loop is joined,
\* the probe stopped, and the loops and the probe started again as the config says
AppRestart ==
  /\ sm_pc = 0 /\ (rb_live \/ fk_live)
  /\ \E b \in BOOLEAN : rb_live' = b /\ fk_live' = ~b
  /\ u_ctl' = "restarted"
  /\ UNCHANGED <<metrics_, sm_pc, sm_t, sm_cur, sm_grew, sm_n, u_sum, u_rec, u_fake,
                 notMetrics>>

UNext ==
  \/ OnEvent \/ FakeBodyAdd \/ SamplerWake \/ SamplerLoad
  \/ ProbeStart \/ ProbeStop \/ FakeToggle \/ AppRestart

SpecMetrics == UInit /\ [][UNext]_vars

\* C21: every total only grows, whichever of the probe reader, the fake generator,
\* the sampler and the start / stop / restart operations takes the step, and every
\* complete snapshot of the sampler is componentwise at least its previous one
C21_TotalsNonDecreasing ==
  /\ [][\A f \in TotalNames : metrics_'[f] >= metrics_[f]]_vars
  /\ [][sm_n >= 1 => \A c \in Channels : sm_cur'[c] >= sm_cur[c]]_vars

\* two snapshots that differ, taken around a restart of the probe, with a record
\* consumed and a fake iteration made
C21_Witness ==
  /\ sm_n = 2 /\ sm_grew
  /\ u_ctl = "restarted" /\ u_rec >= 1 /\ u_fake = 1
  /\ metrics_.events_dropped > 0

\* C22: every record consumed adds exactly 1 to events_total, a sample record adds
\* each of its six counter fields to its total and lost_events to events_dropped, a
\* record of another type adds nothing else: each total is the sum of its field over
\* the sample records consumed, plus the fake increments
C22_TotalsAreSums ==
  metrics_ = u_sum

\* both kinds of record consumed
C22_Witness ==
  /\ u_rec = 2 /\ u_fake = 1
  /\ metrics_.events_total = 2
  /\ metrics_.events_dropped = 2
  /\ metrics_.exec_total = 2

(***************************************************************************)
(* Fan-out: App::api_test_note (app.cpp lines 515-546) and the part of     *)
(* App::music_loop that follows engine.tick (lines 293-304).  Velocity and *)
(* duration are floats, kept as bit patterns so that NaN, the infinities   *)
(* and -0 are values like any other.                                       *)
(***************************************************************************)
notFan == <<base, uvars, dvars, ovars, kvars, zvars>>

\* ticks, test notes and sink operations explored
MaxFanOps == 3

\* the pattern of +infinity without its sign bit: a float is a NaN when the rest of
\* its pattern is above it
IsNaN(x) == x.b > 2139095040

\* operator< on two floats: false when either is a NaN, -0 equal to +0
FLt(x, y) ==
  /\ ~IsNaN(x) /\ ~IsNaN(y)
  /\ (IF x.s = 1 THEN 0 - x.b ELSE x.b) < (IF y.s = 1 THEN 0 - y.b ELSE y.b)

\* the floats used: 0, 0.01, 0.02, 0.05, 0.25, 0.5, 0.7, 1, 2, 3, 5, -1, -0, +inf and a NaN
Float ==
  [zero |-> F32(0, 0), c001 |-> F32(0, 1008981770), c002 |-> F32(0, 1017370378),
   quarter |-> F32(0, 1048576000), half |-> F32(0, 1056964608),
   c07 |-> F32(0, 1060320051), one |-> F32(0, 1065353216), two |-> F32(0, 1073741824),
   c005 |-> F32(0, 1028443341), three |-> F32(0, 1077936128), five |-> F32(0, 1084227584),
   minus_one |-> F32(1, 1065353216), minus_zero |-> F32(1, 0),
   inf |-> F32(0, 2139095040), nan |-> F32(0, 2143289344)]

\* std::clamp(v, lo, hi) and std::max(a, b) on floats: both are built from operator<
\* alone, so a NaN v comes back from clamp as it went in
clamp_f(v, lo, hi) == IF FLt(v, lo) THEN lo ELSE IF FLt(hi, v) THEN hi ELSE v

max_f(a, c) == IF FLt(a, c) THEN c ELSE a

\* lo <= x <= hi as real numbers
InRange(x, lo, hi) == ~IsNaN(x) /\ ~FLt(x, lo) /\ ~FLt(hi, x)

\* the frames engine.tick returns here: none, one and two notes
FrameSet ==
  { EmptyFrame,
    [notes |-> << [midi |-> 62, velocity |-> Float.half, dur_s |-> Float.quarter] >>,
     synth |-> DefaultSynth],
    [notes |-> << [midi |-> 38, velocity |-> Float.c07, dur_s |-> Float.two],
                  [midi |-> 74, velocity |-> Float.quarter, dur_s |-> Float.c002] >>,
     synth |-> [cutoff01 |-> 400000, resonance01 |-> 300000, delay_mix01 |-> 200000,
                reverb_mix01 |-> 250000]] }

\* the arguments the test_note handler passes (server.cpp lines 162-170): atoi and
\* atof of the request's parameters
TestMidi == {-5, 999}
TestVel == {Float.c07, Float.two, Float.nan}
TestDur == {Float.c001, Float.five, Float.nan}

FInit ==
  /\ QParked /\ device_inited = FALSE /\ AppParked /\ LegacyParked /\ CtlParked
  /\ TimeParked /\ MusicParked /\ SignalsParked /\ MetricsParked /\ MidiParked
  /\ OscParked /\ ProbeParked /\ LateParked
  /\ f_en \in [Sinks -> BOOLEAN] /\ f_run = [k \in Sinks |-> f_en[k]]
  /\ f_pc = "idle" /\ f_cfg = f_en
  /\ f_frame = EmptyFrame /\ f_i = 0 /\ a_synth = DefaultSynth
  /\ f_sent = NoNotes /\ f_due = NoNotes /\ f_applied = "no"
  /\ t_call = NoTestNote /\ f_ops = 0

\* the NoteEvent api_test_note builds (app.cpp lines 516-523)
test_note_event(midi, vel, dur_s) ==
  [midi |-> clamp_int(midi, 0, 127),
   velocity |-> clamp_f(vel, Float.zero, Float.one),
   dur_s |-> clamp_f(dur_s, Float.c002, Float.three)]

\* the sinks api_test_note hands the note to (app.cpp lines 528-539)
test_note_sinks(cfg, run) ==
  (IF cfg.audio /\ run.audio THEN {"audio"} ELSE {})
    \cup (IF cfg.midi /\ run.midi THEN {"midi"} ELSE {})
    \cup (IF cfg.osc /\ run.osc THEN {"osc"} ELSE {})

\* api_test_note(midi, vel, dur_s, err) (app.cpp lines 515-546)
ApiTestNote ==
  /\ f_ops < MaxFanOps
  /\ \E midi \in TestMidi, vel \in TestVel, dur \in TestDur :
       t_call' = [set |-> TRUE, midi |-> midi, vel |-> vel, dur |-> dur,
                  ev |-> test_note_event(midi, vel, dur),
                  to |-> test_note_sinks(f_en, f_run),
                  ready |-> { k \in Sinks : f_en[k] /\ f_run[k] },
                  ok |-> test_note_sinks(f_en, f_run) # {}]
  /\ f_ops' = f_ops + 1
  /\ UNCHANGED <<f_en, f_run, f_pc, f_cfg, f_frame, f_i, a_synth, f_sent, f_due,
                 f_applied, notFan>>

\* music_loop lines 267-291: the sleep ends, the config is snapshot and the engine
\* ticked
FanTick ==
  /\ f_pc = "idle" /\ f_ops < MaxFanOps
  /\ \E frame \in FrameSet : f_frame' = frame
  /\ f_cfg' = f_en
  /\ f_pc' = "synth" /\ f_i' = 1
  /\ f_sent' = NoNotes /\ f_due' = NoNotes /\ f_applied' = "no"
  /\ f_ops' = f_ops + 1
  /\ UNCHANGED <<f_en, f_run, a_synth, t_call, notFan>>

\* where the loop over frame.notes goes after the note at index i (line 300)
next_note(frame, i) == IF i < Len(frame.notes) THEN "audio" ELSE "idle"

\* music_loop lines 294-297: set_filter and set_fx when audio is enabled and running
FanSynth ==
  /\ f_pc = "synth"
  /\ IF f_cfg.audio /\ f_run.audio
       THEN a_synth' = f_frame.synth /\ f_applied' = "yes"
       ELSE UNCHANGED <<a_synth, f_applied>>
  /\ f_pc' = next_note(f_frame, 0)
  /\ UNCHANGED <<f_en, f_run, f_cfg, f_frame, f_i, f_sent, f_due, t_call, f_ops, notFan>>

\* whether the loop body hands the note to sink k (lines 301-303)
emits(k, cfg, run) == cfg[k] /\ run[k]

\* the step of the loop body for sink k: line 301 (audio), 302 (midi) or 303 (osc)
FanEmit(k, then) ==
  /\ f_pc = k
  /\ f_sent' = [f_sent EXCEPT ![k] = IF emits(k, f_cfg, f_run)
                                       THEN Append(@, f_frame.notes[f_i]) ELSE @]
  /\ f_due' = [f_due EXCEPT ![k] = IF f_cfg[k] /\ f_run[k]
                                     THEN Append(@, f_frame.notes[f_i]) ELSE @]
  /\ IF then = "next"
       THEN f_pc' = next_note(f_frame, f_i) /\ f_i' = f_i + 1
       ELSE f_pc' = then /\ f_i' = f_i
  /\ UNCHANGED <<f_en, f_run, f_cfg, f_frame, a_synth, f_applied, t_call,
                 f_ops, notFan>>

FanAudio == FanEmit("audio", "midi")
FanMidi == FanEmit("midi", "osc")
FanOsc == FanEmit("osc", "next")

\* api_put_config stores a config whose enable flag for sink k differs (app.cpp
\* line 599); the sink itself is stopped or started in a later step
SinkFlag ==
  /\ f_ops < MaxFanOps
  /\ \E k \in Sinks : f_en' = [f_en EXCEPT ![k] = ~@]
  /\ f_ops' = f_ops + 1
  /\ UNCHANGED <<f_run, f_pc, f_cfg, f_frame, f_i, a_synth, f_sent, f_due, f_applied, t_call, notFan>>

\* AudioEngine::stop, MidiOut::stop or OscClient::stop, from api_put_config, a
\* restart or a device that went away
SinkStop ==
  /\ f_ops < MaxFanOps
  /\ \E k \in Sinks : f_run[k] /\ f_run' = [f_run EXCEPT ![k] = FALSE]
  /\ f_ops' = f_ops + 1
  /\ UNCHANGED <<f_en, f_pc, f_cfg, f_frame, f_i, a_synth, f_sent, f_due, f_applied, t_call, notFan>>

\* a start of sink k that succeeds; a sink is started only while its flag is set
SinkStart ==
  /\ f_ops < MaxFanOps
  /\ \E k \in Sinks : f_en[k] /\ ~f_run[k] /\ f_run' = [f_run EXCEPT ![k] = TRUE]
  /\ f_ops' = f_ops + 1
  /\ UNCHANGED <<f_en, f_pc, f_cfg, f_frame, f_i, a_synth, f_sent, f_due, f_applied, t_call, notFan>>

FNext ==
  \/ ApiTestNote \/ FanTick \/ FanSynth \/ FanAudio \/ FanMidi \/ FanOsc
  \/ SinkFlag \/ SinkStop \/ SinkStart

SpecFan == FInit /\ [][FNext]_vars

\* C24: the note api_test_note builds has midi in [0,127], velocity in [0,1] and
\* duration in [0.02,3.0]; it is handed to exactly the sinks that are enabled and
\* running, and the call fails exactly when there is none
C24_TestNoteClampedAndFanned ==
  t_call.set =>
    /\ t_call.ev.midi \in 0..127
    /\ InRange(t_call.ev.velocity, Float.zero, Float.one)
    /\ InRange(t_call.ev.dur_s, Float.c002, Float.three)
    /\ t_call.to = t_call.ready
    /\ t_call.ok <=> (t_call.ready # {})


\* C25: on a tick every note of the frame goes, in frame order, to each sink that is
\* enabled in the config snapshot and running at that moment and to no other sink,
\* and the frame's synth parameters are applied to the audio engine before its
\* notes are submitted
C25_FanOutAfterSynth ==
  /\ \A k \in Sinks : f_sent[k] = f_due[k]
  /\ f_sent.audio # <<>> => f_applied = "yes"

(***************************************************************************)
(* MIDI sink: MidiOut::send_note, the worker Impl::loop that sends the     *)
(* note-offs, and MidiOut::stop / start (midi/alsa_seq.cpp).               *)
(***************************************************************************)
notMidi == <<base, uvars, fvars, ovars, kvars, zvars>>

\* send_note, stop and start calls explored
MaxMidiOps == 3
\* the steady clock stops here, in ms
MaxMidiTime == 60
\* how far the clock moves in one step, in ms
ClockStep == [ms |-> 10]

\* the NoteEvents handed to send_note: pitch in and above range, duration below the
\* floor, above it, and a NaN
MidiNoteSet ==
  { [midi |-> 60, velocity |-> Float.c07, dur_s |-> Float.c005],
    [midi |-> 60, velocity |-> Float.c07, dur_s |-> Float.c001],
    [midi |-> 200, velocity |-> Float.one, dur_s |-> Float.nan] }

\* duration_cast of a duration<float> in seconds, here in ms, for the two values
\* max(0.02f, dur) takes on MidiNoteSet
float_ms(x) == IF x = Float.c005 THEN 50 ELSE 20

\* the due time send_note computes (lines 176-177): now + max(0.02f, dur)
note_due(now, ev) == now + float_ms(max_f(Float.c002, ev.dur_s))

DInit ==
  /\ QParked /\ device_inited = FALSE /\ AppParked /\ LegacyParked /\ CtlParked
  /\ TimeParked /\ MusicParked /\ SignalsParked /\ MetricsParked /\ FanParked
  /\ OscParked /\ ProbeParked /\ LateParked
  /\ md_run \in BOOLEAN /\ md_offs = <<>> /\ md_now = 0
  /\ md_open = [p \in MidiPitches |-> 0] /\ md_early = FALSE /\ md_ops = 0

\* MidiOut::send_note(ev) (lines 169-185): nothing when the sink is not running,
\* else a note-on now and a PendingOff pushed
MidiSendNote ==
  /\ md_ops < MaxMidiOps
  /\ \E ev \in MidiNoteSet :
       /\ note_due(md_now, ev) <= MaxMidiTime
       /\ IF md_run
            THEN /\ md_offs' = Append(md_offs, [due |-> note_due(md_now, ev),
                                                midi |-> clamp_int(ev.midi, 0, 127)])
                 /\ md_open' = [md_open EXCEPT ![clamp_int(ev.midi, 0, 127)] = @ + 1]
            ELSE UNCHANGED <<md_offs, md_open>>
  /\ md_ops' = md_ops + 1
  /\ UNCHANGED <<md_run, md_now, md_early, notMidi>>

\* the entries of offs the worker erases and sends (lines 85-93), and the rest
due_offs(offs, now) == SelectSeq(offs, LAMBDA o : o.due <= now)
kept_offs(offs, now) == SelectSeq(offs, LAMBDA o : ~(o.due <= now))

\* how many of the entries of offs carry pitch p
CountPitch(offs, p) == Cardinality({ i \in 1..Len(offs) : offs[i].midi = p })

\* one iteration of Impl::loop (lines 79-99)
MidiLoop ==
  /\ md_run
  /\ md_offs' = kept_offs(md_offs, md_now)
  /\ md_open' = [p \in MidiPitches |->
                   IF md_open[p] > CountPitch(due_offs(md_offs, md_now), p)
                     THEN md_open[p] - CountPitch(due_offs(md_offs, md_now), p)
                     ELSE 0]
  /\ md_early' = (md_early \/ \E i \in 1..Len(due_offs(md_offs, md_now)) :
                                 due_offs(md_offs, md_now)[i].due > md_now)
  /\ UNCHANGED <<md_run, md_now, md_ops, notMidi>>

\* MidiOut::stop() (lines 148-158): the worker is joined, the sequencer closed and
\* offs cleared
MidiStop ==
  /\ md_ops < MaxMidiOps
  /\ md_run' = FALSE /\ md_offs' = <<>>
  /\ md_ops' = md_ops + 1
  /\ UNCHANGED <<md_now, md_open, md_early, notMidi>>

\* MidiOut::start(port, channel, err) (lines 109-146): stop(), then the sequencer is
\* opened, which may fail
MidiStart ==
  /\ md_ops < MaxMidiOps
  /\ md_run' \in BOOLEAN /\ md_offs' = <<>>
  /\ md_ops' = md_ops + 1
  /\ UNCHANGED <<md_now, md_open, md_early, notMidi>>

\* the steady clock advances
MidiClock ==
  /\ md_now + ClockStep.ms <= MaxMidiTime
  /\ md_now' = md_now + ClockStep.ms
  /\ UNCHANGED <<md_run, md_offs, md_open, md_early, md_ops, notMidi>>

DNext == MidiSendNote \/ MidiLoop \/ MidiStop \/ MidiStart \/ MidiClock

\* the worker thread keeps running while the sink is up, and time passes
SpecMidi == DInit /\ [][DNext]_vars /\ WF_vars(MidiLoop) /\ WF_vars(MidiClock)

\* C26: every note-on send_note sent is eventually followed by a note-off for the
\* same pitch, sent no earlier than the note's due time, also when the sink is
\* stopped or restarted while note-offs are pending
C26_NoteOffFollows ==
  /\ [](~md_early)
  /\ \A p \in MidiPitches : (md_open[p] > 0) ~> (md_open[p] = 0)

(***************************************************************************)
(* OSC: pad4, put_str, put_i32, put_f32 and encode_note (osc/encode.h),    *)
(* osc_msg_note (osc/osc.cpp), and the readers of tests/test_main.cpp.     *)
(* A message is a sequence of bytes; byte offset i of the code is index    *)
(* i + 1 here.  A 32-bit word in memory is its four bytes, lowest first.   *)
(***************************************************************************)
notOsc == <<base, uvars, fvars, dvars, kvars, zvars>>

\* notes encoded in one behaviour
MaxEncodes == 2

\* "/khor/note" and ",iff" as character codes
NoteAddress == <<47, 107, 104, 111, 114, 47, 110, 111, 116, 101>>
NoteTypeTag == <<44, 105, 102, 102>>

\* the NoteEvents encoded: pitch below, in and above range; velocity and duration
\* negative, -0, in range, above range, infinite and NaN
OscMidi == {-3, 0, 64, 127, 300}
OscVel ==
  {Float.minus_one, Float.minus_zero, Float.half, Float.c07, Float.one, Float.two,
   Float.inf, Float.nan}
OscDur ==
  {Float.minus_one, Float.minus_zero, Float.zero, Float.quarter, Float.five, Float.nan}

RECURSIVE pad4(_)
\* pad4(b) (encode.h lines 16-18)
pad4(b) == IF Len(b) % 4 # 0 THEN pad4(Append(b, 0)) ELSE b

\* put_str(b, s) (encode.h lines 20-26)
put_str(b, s) == pad4(Append(b \o s, 0))

\* the object representation of a uint32_t holding int32_t v, and of a float
i32_mem(v) ==
  IF v >= 0
    THEN <<v % 256, (v \div 256) % 256, (v \div 65536) % 256, v \div 16777216>>
    ELSE <<v % 256, (v \div 256) % 256, (v \div 65536) % 256,
           ((v + 2147483647 + 1) \div 16777216) + 128>>
f32_mem(f) ==
  <<f.b % 256, (f.b \div 256) % 256, (f.b \div 65536) % 256,
    f.s * 128 + (f.b \div 16777216)>>

\* htonl and ntohl on a little-endian host: the four bytes in reverse order
htonlMutant(m) == m

htonl(m) == <<m[4], m[3], m[2], m[1]>>

ntohl(m) == <<m[4], m[3], m[2], m[1]>>

\* put_i32(b, v) (encode.h lines 28-32) and put_f32(b, f) (lines 34-41)
put_i32(b, v) == b \o htonl(i32_mem(v))
put_f32(b, f) == b \o htonl(f32_mem(f))

\* encode_note(ev) (encode.h lines 43-52)
encode_note(ev) ==
  put_f32(
    put_f32(
      put_i32(put_str(put_str(<<>>, NoteAddress), NoteTypeTag),
              clamp_int(ev.midi, 0, 127)),
      clamp_f(ev.velocity, Float.zero, Float.one)),
    max_f(Float.zero, ev.dur_s))

\* osc_msg_note(ev) (osc.cpp lines 42-51), built on osc.cpp's own copies of the
\* put functions (lines 15-40)
osc_msg_note(ev) ==
  LET b1 == pad4(Append(<<>> \o NoteAddress, 0))
      b2 == pad4(Append(b1 \o NoteTypeTag, 0))
      b3 == b2 \o htonl(i32_mem(clamp_int(ev.midi, 0, 127)))
      b4 == b3 \o htonl(f32_mem(clamp_f(ev.velocity, Float.zero, Float.one)))
  IN b4 \o htonl(f32_mem(max_f(Float.zero, ev.dur_s)))

RECURSIVE read_chars(_, _)
\* the first loop of osc_read_str (test_main.cpp line 113): the offset of the first
\* null at or after i
read_chars(b, i) == IF i < Len(b) /\ b[i + 1] # 0 THEN read_chars(b, i + 1) ELSE i

RECURSIVE skip_pad(_, _)
\* the padding loop of osc_read_str (line 117)
skip_pad(b, i) == IF i % 4 # 0 /\ i < Len(b) THEN skip_pad(b, i + 1) ELSE i

\* osc_read_str(b, off) (test_main.cpp lines 110-120): the string and the new offset
osc_read_str(b, off) ==
  [s |-> SubSeq(b, off + 1, read_chars(b, off)),
   off |-> skip_pad(b, IF read_chars(b, off) < Len(b) THEN read_chars(b, off) + 1
                                                    ELSE read_chars(b, off))]

\* osc_read_u32(b, off) (test_main.cpp lines 122-131): the word, as it lies in
\* memory after ntohl, and the new offset
osc_read_u32(b, off) ==
  IF off + 4 > Len(b)
    THEN [u |-> <<0, 0, 0, 0>>, off |-> off]
    ELSE [u |-> ntohl(SubSeq(b, off + 1, off + 4)), off |-> off + 4]

\* the int32_t and the float a word in memory stands for
mem_i32(m) == (m[4] % 128) * 16777216 + m[3] * 65536 + m[2] * 256 + m[1]
                - (IF m[4] >= 128 THEN 2147483647 + 1 ELSE 0)
mem_f32(m) == F32(m[4] \div 128, (m[4] % 128) * 16777216 + m[3] * 65536 + m[2] * 256 + m[1])

OInit ==
  /\ QParked /\ device_inited = FALSE /\ AppParked /\ LegacyParked /\ CtlParked
  /\ TimeParked /\ EngineParked

\* osc::encode_note(ev)
EncodeNote ==
  /\ os_n < MaxEncodes
  /\ \E midi \in OscMidi, vel \in OscVel, dur \in OscDur :
       /\ os_ev' = [midi |-> midi, velocity |-> vel, dur_s |-> dur]
       /\ os_msg' = encode_note([midi |-> midi, velocity |-> vel, dur_s |-> dur])
  /\ os_n' = os_n + 1
  /\ UNCHANGED notOsc

\* OscClient::send_note(ev) on a running client (osc.cpp lines 147-151): the payload
\* handed to sendto
OscSendNote ==
  /\ os_n < MaxEncodes
  /\ \E midi \in OscMidi, vel \in OscVel, dur \in OscDur :
       /\ os_ev' = [midi |-> midi, velocity |-> vel, dur_s |-> dur]
       /\ os_msg' = osc_msg_note([midi |-> midi, velocity |-> vel, dur_s |-> dur])
  /\ os_n' = os_n + 1
  /\ UNCHANGED notOsc

ONext == EncodeNote \/ OscSendNote

SpecOsc == OInit /\ [][ONext]_vars

\* what the readers find in a message: address, type tag, three words, end offset
Decoded(b) ==
  LET a == osc_read_str(b, 0)
      t == osc_read_str(b, a.off)
      m == osc_read_u32(b, t.off)
      v == osc_read_u32(b, m.off)
      d == osc_read_u32(b, v.off)
  IN [addr |-> a.s, addr_end |-> a.off, tag |-> t.s, tag_end |-> t.off,
      midi |-> mem_i32(m.u), velocity |-> mem_f32(v.u), dur_s |-> mem_f32(d.u),
      end |-> d.off]

\* C27: the encoding of a NoteEvent has a length that is a multiple of 4, starts with
\* "/khor/note" and ",iff", each null-terminated and zero-padded to a 4-byte
\* boundary, and ends with three big-endian 32-bit arguments that decode to
\* clamp(midi, 0, 127), clamp01(velocity) and max(0, dur)
C27_EncodeNoteDecodes ==
  os_n > 0 =>
    \E x \in {Decoded(os_msg)} :
      /\ Len(os_msg) % 4 = 0
      /\ x.addr = NoteAddress /\ x.tag = NoteTypeTag
      /\ x.addr_end % 4 = 0 /\ x.addr_end > Len(NoteAddress)
      /\ \A i \in Len(NoteAddress) + 1 .. x.addr_end : os_msg[i] = 0
      /\ x.tag_end % 4 = 0 /\ x.tag_end > x.addr_end + Len(NoteTypeTag)
      /\ \A i \in x.addr_end + Len(NoteTypeTag) + 1 .. x.tag_end : os_msg[i] = 0
      /\ x.end = Len(os_msg) /\ x.end = x.tag_end + 12
      /\ x.midi = clamp_int(os_ev.midi, 0, 127)
      /\ x.velocity = clamp_f(os_ev.velocity, Float.zero, Float.one)
      /\ x.dur_s = max_f(Float.zero, os_ev.dur_s)

\* a note with pitch and velocity above range and a negative duration was encoded
\* into 32 bytes whose last eight are 1.0 and 0.0, highest byte first
C27_Witness ==
  /\ os_n = 2 /\ os_ev.midi = 300 /\ os_ev.velocity = Float.two
  /\ os_ev.dur_s = Float.minus_one
  /\ Len(os_msg) = 32
  /\ SubSeq(os_msg, 21, 32) = <<0, 0, 0, 127, 63, 128, 0, 0, 0, 0, 0, 0>>

(***************************************************************************)
(* Kernel probe: the six tracepoint handlers, maybe_flush, emit_sample and *)
(* cfg_interval_ns of bpf/khor.bpf.c, BpfCollector::apply_config and the   *)
(* reader's on_event.  A handler runs to its end on its CPU before another *)
(* runs there, so one tracepoint hit is one step.  Times are in ns.        *)
(***************************************************************************)
urest == <<rb_live, fk_live, sm_pc, sm_t, sm_cur, sm_grew, sm_n, u_sum, u_rec, u_fake,
           u_ctl>>
notProbe == <<base, urest, fvars, dvars, ovars, zvars>>

\* tracepoint hits explored
MaxProbeEvents == 3
\* steps of the clock explored
MaxProbeTicks == 3
\* records the ring holds before a reservation fails
RingSlots == 1
\* one step of the clock: 100 ms
ProbeTick == [ns |-> 100000000]

\* enum khor_probe_mask (khor.h lines 23-28)
ProbeMask ==
  [KHOR_PROBE_EXEC |-> 1, KHOR_PROBE_NET |-> 2, KHOR_PROBE_SCHED |-> 4,
   KHOR_PROBE_BLOCK |-> 8]

\* the values of khor_cfg[0] explored: every probe or all but the scheduler's;
\* interval unset or 100 ms.  The filters on tgid and cgroup are off.
ProbeConfigs ==
  { [enabled_mask |-> m, sample_interval_ms |-> ms] : m \in {0, 11}, ms \in {0, 100} }

\* the tracepoint hits explored: the handler, the bit it tests and what it adds
ProbeEvents ==
  { [tp |-> "tp_execve", bit |-> ProbeMask.KHOR_PROBE_EXEC, field |-> "exec_count",
     amount |-> 1],
    [tp |-> "tp_net_rx", bit |-> ProbeMask.KHOR_PROBE_NET, field |-> "net_rx_bytes",
     amount |-> 1500],
    [tp |-> "tp_sched_switch", bit |-> ProbeMask.KHOR_PROBE_SCHED,
     field |-> "sched_switches", amount |-> 1],
    [tp |-> "tp_block_rq_complete", bit |-> ProbeMask.KHOR_PROBE_BLOCK,
     field |-> "blk_write_bytes", amount |-> 512],
    [tp |-> "tp_block_rq_complete", bit |-> ProbeMask.KHOR_PROBE_BLOCK,
     field |-> "none", amount |-> 0] }

\* cfg_enabled_mask(cfg) (lines 41-45)
cfg_enabled_mask(cfg) == IF cfg.enabled_mask # 0 THEN cfg.enabled_mask ELSE 15

\* cfg_interval_ns(cfg) (lines 47-51)
cfg_interval_nsMutant(cfg) == cfg.sample_interval_ms * 1000000

cfg_interval_ns(cfg) ==
  (IF cfg.sample_interval_ms = 0 THEN 200 ELSE cfg.sample_interval_ms) * 1000000

\* the test of maybe_flush before emit_sample (lines 105-106)
acc_nonzeroMutant(acc) ==
  \/ acc.exec_count # 0 \/ acc.net_rx_bytes # 0 \/ acc.net_tx_bytes # 0
  \/ acc.sched_switches # 0 \/ acc.blk_read_bytes # 0
  \/ acc.blk_issue_count # 0 \/ acc.lost_events # 0

acc_nonzero(acc) ==
  \/ acc.exec_count # 0 \/ acc.net_rx_bytes # 0 \/ acc.net_tx_bytes # 0
  \/ acc.sched_switches # 0 \/ acc.blk_read_bytes # 0 \/ acc.blk_write_bytes # 0
  \/ acc.blk_issue_count # 0 \/ acc.lost_events # 0

\* emit_sample(c, cfg, now) on CPU cpu (lines 75-94): the counters after it and the
\* record submitted, if the ring had room
emit_sample(c, now, cpu, room) ==
  IF ~room
    THEN [c |-> [c EXCEPT !.acc.lost_events = @ + 1], out |-> <<>>, failed |-> TRUE]
    ELSE [c |-> c,
          out |-> << [ts_ns |-> now, type |-> KHOR_EV_SAMPLE, cpu |-> cpu,
                      sample |-> c.acc] >>,
          failed |-> FALSE]

\* maybe_flush(c, cfg, now) (lines 96-119)
maybe_flush(c, cfg, now, cpu, room) ==
  IF c.last_flush_ns = 0
    THEN [c |-> [c EXCEPT !.last_flush_ns = now], out |-> <<>>, failed |-> FALSE]
  ELSE IF now - c.last_flush_ns < cfg_interval_ns(cfg)
    THEN [c |-> c, out |-> <<>>, failed |-> FALSE]
  ELSE LET e == IF acc_nonzero(c.acc)
                  THEN emit_sample(c, now, cpu, room)
                  ELSE [c |-> c, out |-> <<>>, failed |-> FALSE]
       IN [c |-> [last_flush_ns |-> now, acc |-> ZeroPayload],
           out |-> e.out, failed |-> e.failed]

\* the counters after the handler's increment (the line before maybe_flush)
bump(c, ev) ==
  IF ev.field = "none" THEN c ELSE [c EXCEPT !.acc[ev.field] = @ + ev.amount]

KInit ==
  /\ QParked /\ device_inited = FALSE /\ AppParked /\ LegacyParked /\ CtlParked
  /\ TimeParked /\ MusicParked /\ SignalsParked /\ MetricsParked /\ FanParked
  /\ MidiParked /\ OscParked /\ LateParked
  /\ kp_cfg \in ProbeConfigs
  /\ kp_acc = [c \in Cpus |-> ZeroCounters] /\ kp_now = ProbeTick.ns /\ kp_ring = <<>>
  /\ kp_out = [c \in Cpus |-> <<>>] /\ kp_adm = ZeroPayload /\ kp_fails = 0
  /\ kp_last = [n |-> 0, cpu |-> 0, admitted |-> FALSE] /\ kp_changed = FALSE

\* one tracepoint hit on CPU cpu: tp_execve, tp_net_rx, tp_net_tx, tp_sched_switch,
\* tp_block_rq_issue or tp_block_rq_complete (lines 121-228)
TracePoint ==
  /\ kp_last.n < MaxProbeEvents
  /\ \E cpu \in Cpus, ev \in ProbeEvents :
       IF (cfg_enabled_mask(kp_cfg) \div ev.bit) % 2 = 0
         THEN /\ kp_last' = [n |-> kp_last.n + 1, cpu |-> cpu, admitted |-> FALSE]
              /\ UNCHANGED <<kp_acc, kp_ring, kp_out, kp_adm, kp_fails>>
         ELSE \E r \in {maybe_flush(bump(kp_acc[cpu], ev), kp_cfg, kp_now, cpu,
                                    Len(kp_ring) < RingSlots)} :
                /\ kp_acc' = [kp_acc EXCEPT ![cpu] = r.c]
                /\ kp_ring' = kp_ring \o r.out
                /\ kp_out' = [kp_out EXCEPT ![cpu] = @ \o r.out]
                /\ kp_adm' = bump([acc |-> kp_adm], ev).acc
                /\ kp_fails' = kp_fails + (IF r.failed THEN 1 ELSE 0)
                /\ kp_last' = [n |-> kp_last.n + 1, cpu |-> cpu, admitted |-> TRUE]
  /\ UNCHANGED <<kp_cfg, kp_now, kp_changed, metrics_, notProbe>>

\* the reader consumes the oldest record: on_event (collector.cpp lines 158-173)
ProbeRead ==
  /\ kp_ring # <<>>
  /\ metrics_' = on_event(metrics_, Head(kp_ring))
  /\ kp_ring' = Tail(kp_ring)
  /\ UNCHANGED <<kp_cfg, kp_acc, kp_now, kp_out, kp_adm, kp_fails, kp_last,
                 kp_changed, notProbe>>

\* BpfCollector::apply_config on a running probe (collector.cpp lines 59-86), with
\* another sample interval
ProbeApplyConfig ==
  /\ ~kp_changed
  /\ \E cfg \in ProbeConfigs :
       /\ cfg.enabled_mask = kp_cfg.enabled_mask /\ cfg # kp_cfg
       /\ kp_cfg' = cfg
  /\ kp_changed' = TRUE
  /\ UNCHANGED <<kp_acc, kp_now, kp_ring, kp_out, kp_adm, kp_fails, kp_last,
                 metrics_, notProbe>>

\* bpf_ktime_get_ns() advances
ProbeClock ==
  /\ kp_now < (MaxProbeTicks + 1) * ProbeTick.ns
  /\ kp_now' = kp_now + ProbeTick.ns
  /\ UNCHANGED <<kp_cfg, kp_acc, kp_ring, kp_out, kp_adm, kp_fails, kp_last,
                 kp_changed, metrics_, notProbe>>

KNext == TracePoint \/ ProbeRead \/ ProbeApplyConfig \/ ProbeClock

SpecProbe == KInit /\ [][KNext]_vars


\* the payload fields a tracepoint handler adds to
CountedFields ==
  {"exec_count", "net_rx_bytes", "net_tx_bytes", "sched_switches", "blk_read_bytes",
   "blk_write_bytes", "blk_issue_count"}

RECURSIVE SumField(_, _)
\* the sum of field f over a sequence of records
SumField(recs, f) ==
  IF recs = <<>> THEN 0 ELSE Head(recs).sample[f] + SumField(Tail(recs), f)

\* C28: a reservation failure counted in lost_events is not cleared before it was
\* reported: every failure is held by the accumulator of its CPU, carried by a
\* sample in the ring, or already part of events_dropped
C28_LostEventsReported ==
  kp_fails = kp_acc[0].acc.lost_events + kp_acc[1].acc.lost_events
               + SumField(kp_ring, "lost_events") + metrics_.events_dropped

\* C29: while no reservation has failed, for each channel the sum over the samples
\* emitted plus what the per-CPU accumulators hold is the sum of the admitted
\* increments
C29_IncrementsCarriedOnce ==
  kp_fails = 0 =>
    \A f \in CountedFields :
      SumField(kp_out[0], f) + SumField(kp_out[1], f)
        + kp_acc[0].acc[f] + kp_acc[1].acc[f] = kp_adm[f]

\* no reservation failed; CPU 0 emitted a sample carrying an exec and 1500 received
\* bytes, which the reader has consumed, and CPU 1 still holds 1500 bytes
C29_Witness ==
  /\ kp_fails = 0 /\ Len(kp_out[0]) = 1 /\ kp_out[1] = <<>>
  /\ kp_adm.net_rx_bytes = 3000 /\ kp_adm.exec_count = 1
  /\ kp_acc[1].acc.net_rx_bytes = 1500 /\ kp_acc[0].acc = ZeroPayload
  /\ metrics_.net_rx_bytes_total = 1500 /\ metrics_.exec_total = 1

\* the interval of the config: sample_interval_ms, 0 meaning 200 ms, in ns
IntervalNs == (IF kp_cfg.sample_interval_ms = 0 THEN 200 ELSE kp_cfg.sample_interval_ms) * 1000000

\* C30: with a fixed config two samples of one CPU carry timestamps at least
\* sample_interval_ms apart (0 meaning 200 ms); a sample is emitted only when the
\* interval has elapsed and a field of the accumulator is non-zero; the first
\* admitted event on a CPU only initialises the flush timestamp
C30_SampleSpacing ==
  /\ [](~kp_changed =>
          \A c \in Cpus : \A i \in 1..(Len(kp_out[c]) - 1) :
            kp_out[c][i + 1].ts_ns - kp_out[c][i].ts_ns >= IntervalNs)
  /\ [][\A c \in Cpus :
          kp_out'[c] # kp_out[c] =>
            /\ kp_acc[c].last_flush_ns # 0
            /\ kp_now - kp_acc[c].last_flush_ns >= IntervalNs
            /\ \E f \in CountedFields \cup {"lost_events"} :
                 kp_out'[c][Len(kp_out'[c])].sample[f] # 0]_vars
  /\ [][\A c \in Cpus :
          (/\ kp_last'.n = kp_last.n + 1 /\ kp_last'.cpu = c /\ kp_last'.admitted
           /\ kp_acc[c].last_flush_ns = 0) =>
            /\ kp_out'[c] = kp_out[c] /\ kp_ring' = kp_ring
            /\ kp_acc'[c].last_flush_ns = kp_now]_vars

\* with an interval of 100 ms never rewritten, CPU 0 set its flush timestamp on its
\* first event and emitted two samples 100 ms apart on the next two
C30_Witness ==
  /\ ~kp_changed /\ kp_cfg.sample_interval_ms = 100
  /\ Len(kp_out[0]) = 2 /\ kp_out[0][2].ts_ns - kp_out[0][1].ts_ns = 100000000
  /\ kp_last.n = 3 /\ kp_acc[0].last_flush_ns = kp_out[0][2].ts_ns

(***************************************************************************)
(* Filters of the kernel probe: pass_filters and cfg_enabled_mask at the   *)
(* head of every tracepoint handler (bpf/khor.bpf.c).  Here khor_cfg[0]    *)
(* carries its five fields and a hit carries the current task.             *)
(***************************************************************************)
\* tracepoint hits explored with the filters on
MaxFilterEvents == 3

\* khor_cfg[0]: every class or exec only, each filter off or on
FilterConfigs ==
  { [enabled_mask |-> m, sample_interval_ms |-> 100, tgid_allow |-> a, tgid_deny |-> d,
     cgroup_id |-> g] : m \in {0, 1}, a \in {0, 7}, d \in {0, 8}, g \in {0, 3} }

\* the current task of a hit: bpf_get_current_pid_tgid() >> 32 and
\* bpf_get_current_cgroup_id()
Tasks == { [tgid |-> t, cgroup |-> g] : t \in {7, 8}, g \in {3, 4} }

\* the hits explored with the filters on
FilterEvents == { ev \in ProbeEvents : ev.tp \in {"tp_execve", "tp_net_rx"} }

\* pass_filters(cfg) for the current task (lines 53-68)
pass_filtersMutant(cfg, task) ==
  /\ ~(cfg.tgid_allow # 0 /\ task.tgid # cfg.tgid_allow)
  /\ ~(cfg.cgroup_id # 0 /\ task.cgroup # cfg.cgroup_id)

pass_filters(cfg, task) ==
  IF cfg.tgid_allow # 0 /\ task.tgid # cfg.tgid_allow THEN FALSE
  ELSE IF cfg.tgid_deny # 0 /\ task.tgid = cfg.tgid_deny THEN FALSE
  ELSE IF cfg.cgroup_id # 0 /\ task.cgroup # cfg.cgroup_id THEN FALSE
  ELSE TRUE

\* the two tests at the head of a handler (lines 125-126 of tp_execve, the same in
\* the other five): whether the hit goes on to the accumulator
admits(cfg, task, ev) ==
  IF ~pass_filters(cfg, task) THEN FALSE
  ELSE IF (cfg_enabled_mask(cfg) \div ev.bit) % 2 = 0 THEN FALSE
  ELSE TRUE

KFInit ==
  /\ QParked /\ device_inited = FALSE /\ AppParked /\ LegacyParked /\ CtlParked
  /\ TimeParked /\ MusicParked /\ SignalsParked /\ MetricsParked /\ FanParked
  /\ MidiParked /\ OscParked /\ LateParked
  /\ kp_cfg \in FilterConfigs
  /\ kp_acc = [c \in Cpus |-> ZeroCounters] /\ kp_now = ProbeTick.ns /\ kp_ring = <<>>
  /\ kp_out = [c \in Cpus |-> <<>>] /\ kp_adm = ZeroPayload /\ kp_fails = 0
  /\ kp_last = [n |-> 0, cpu |-> 0, admitted |-> FALSE, task |-> [tgid |-> 0, cgroup |-> 0],
                bit |-> 0]
  /\ kp_changed = FALSE

\* one tracepoint hit on CPU cpu by task: tp_execve or tp_net_rx, from its first line
\* to its return (lines 121-150)
TracePointTask ==
  /\ kp_last.n < MaxFilterEvents
  /\ \E cpu \in Cpus, ev \in FilterEvents, task \in Tasks :
       IF ~admits(kp_cfg, task, ev)
         THEN /\ kp_last' = [n |-> kp_last.n + 1, cpu |-> cpu, admitted |-> FALSE,
                             task |-> task, bit |-> ev.bit]
              /\ UNCHANGED <<kp_acc, kp_ring, kp_out, kp_adm, kp_fails>>
         ELSE \E r \in {maybe_flush(bump(kp_acc[cpu], ev), kp_cfg, kp_now, cpu,
                                    Len(kp_ring) < RingSlots)} :
                /\ kp_acc' = [kp_acc EXCEPT ![cpu] = r.c]
                /\ kp_ring' = kp_ring \o r.out
                /\ kp_out' = [kp_out EXCEPT ![cpu] = @ \o r.out]
                /\ kp_adm' = bump([acc |-> kp_adm], ev).acc
                /\ kp_fails' = kp_fails + (IF r.failed THEN 1 ELSE 0)
                /\ kp_last' = [n |-> kp_last.n + 1, cpu |-> cpu, admitted |-> TRUE,
                               task |-> task, bit |-> ev.bit]
  /\ UNCHANGED <<kp_cfg, kp_now, kp_changed, metrics_, notProbe>>

KFNext == TracePointTask \/ ProbeRead \/ ProbeClock

SpecFilter == KFInit /\ [][KFNext]_vars

\* the hit that has just run was rejected by a filter or by the mask, in the words
\* of the data model
Rejected(cfg, task, bit) ==
  \/ cfg.tgid_allow # 0 /\ task.tgid # cfg.tgid_allow
  \/ cfg.tgid_deny # 0 /\ task.tgid = cfg.tgid_deny
  \/ cfg.cgroup_id # 0 /\ task.cgroup # cfg.cgroup_id
  \/ ((IF cfg.enabled_mask = 0 THEN 15 ELSE cfg.enabled_mask) \div bit) % 2 = 0

\* C31: a hit rejected by tgid_allow, tgid_deny, cgroup_id or the enabled mask (0
\* meaning all four classes) leaves every accumulator field and the flush
\* timestamp as they were and emits no sample
C31_RejectedLeavesNoTrace ==
  [][(kp_last'.n = kp_last.n + 1
        /\ Rejected(kp_cfg, kp_last'.task, kp_last'.bit)) =>
       /\ kp_acc' = kp_acc /\ kp_ring' = kp_ring /\ kp_out' = kp_out]_vars

\* a hit of the denied tgid was rejected on a CPU whose accumulator holds counts and
\* whose flush was due
C31_Witness ==
  /\ kp_last.n = 2 /\ ~kp_last.admitted /\ kp_cfg.tgid_deny = 8 /\ kp_last.task.tgid = 8
  /\ kp_cfg.tgid_allow = 0 /\ kp_cfg.enabled_mask = 0
  /\ kp_acc[kp_last.cpu].acc.exec_count = 1 /\ kp_acc[kp_last.cpu].last_flush_ns # 0
  /\ kp_now - kp_acc[kp_last.cpu].last_flush_ns >= cfg_interval_ns(kp_cfg)

(***************************************************************************)
(* binary32 arithmetic as the envelope uses it: sums and differences of    *)
(* finite non-negative floats and the quotient of one by an integer-valued *)
(* float, each rounded to nearest, ties to even.  A float of pattern b is  *)
(* Mant(b) * 2^(Expo(b) - 150).                                            *)
(***************************************************************************)
\* everything that was there before the parts added last
notLate == <<base, uvars, fvars, dvars, ovars, kvars>>
EarlyParked ==
  /\ QParked /\ device_inited = FALSE /\ AppParked /\ LegacyParked /\ CtlParked
  /\ TimeParked /\ MusicParked /\ SignalsParked /\ MetricsParked /\ FanParked
  /\ MidiParked /\ OscParked /\ ProbeParked

\* the powers of two of a 32-bit int
PowersOfTwo ==
  <<1, 2, 4, 8, 16, 32, 64, 128, 256, 512, 1024, 2048, 4096, 8192, 16384,
    32768, 65536, 131072, 262144, 524288, 1048576, 2097152, 4194304,
    8388608, 16777216, 33554432, 67108864, 134217728, 268435456,
    536870912, 1073741824>>
TwoTo(n) == PowersOfTwo[n + 1]

Mant(b) == IF b \div 8388608 = 0 THEN b % 8388608 ELSE 8388608 + (b % 8388608)
Expo(b) == IF b \div 8388608 = 0 THEN 1 ELSE b \div 8388608

\* r shifted right by n bits, the bits lost kept as a sticky lowest bit
ShrSticky(r, n) ==
  IF n = 0 THEN r
  ELSE IF n > 30 THEN (IF r # 0 THEN 1 ELSE 0)
  ELSE IF r % TwoTo(n) # 0 THEN (((r \div TwoTo(n)) \div 2) * 2) + 1
  ELSE r \div TwoTo(n)

\* the number of bits of r < 2^31
BitLen(r) ==
  IF r >= 1073741824 THEN 31
  ELSE IF r >= 536870912 THEN 30
  ELSE IF r >= 268435456 THEN 29
  ELSE IF r >= 134217728 THEN 28
  ELSE IF r >= 67108864 THEN 27
  ELSE IF r >= 33554432 THEN 26
  ELSE IF r >= 16777216 THEN 25
  ELSE IF r >= 8388608 THEN 24
  ELSE IF r >= 4194304 THEN 23
  ELSE IF r >= 2097152 THEN 22
  ELSE IF r >= 1048576 THEN 21
  ELSE IF r >= 524288 THEN 20
  ELSE IF r >= 262144 THEN 19
  ELSE IF r >= 131072 THEN 18
  ELSE IF r >= 65536 THEN 17
  ELSE IF r >= 32768 THEN 16
  ELSE IF r >= 16384 THEN 15
  ELSE IF r >= 8192 THEN 14
  ELSE IF r >= 4096 THEN 13
  ELSE IF r >= 2048 THEN 12
  ELSE IF r >= 1024 THEN 11
  ELSE IF r >= 512 THEN 10
  ELSE IF r >= 256 THEN 9
  ELSE IF r >= 128 THEN 8
  ELSE IF r >= 64 THEN 7
  ELSE IF r >= 32 THEN 6
  ELSE IF r >= 16 THEN 5
  ELSE IF r >= 8 THEN 4
  ELSE IF r >= 4 THEN 3
  ELSE IF r >= 2 THEN 2
  ELSE IF r >= 1 THEN 1
  ELSE 0

\* r * 2^(e - 153) with r brought into [2^26, 2^27), or e to 1 for a denormal
Normal(r, e) ==
  IF BitLen(r) >= 27
    THEN IF BitLen(r) - 27 >= 1 - e
           THEN [r |-> ShrSticky(r, BitLen(r) - 27), e |-> e + (BitLen(r) - 27)]
           ELSE [r |-> ShrSticky(r, 1 - e), e |-> 1]
  ELSE IF e < 1 THEN [r |-> ShrSticky(r, 1 - e), e |-> 1]
  ELSE IF r = 0 THEN [r |-> r, e |-> e]
  ELSE IF 27 - BitLen(r) <= e - 1
    THEN [r |-> r * TwoTo(27 - BitLen(r)), e |-> e - (27 - BitLen(r))]
  ELSE [r |-> r * TwoTo(e - 1), e |-> 1]

\* the float of sign sign whose 24 bits are those of n.r above its lowest three,
\* rounded to nearest by these three, ties to even
Pack(sign, n) ==
  LET m == n.r \div 8
      up == (n.r % 8 > 4) \/ (n.r % 8 = 4 /\ m % 2 = 1)
      m1 == IF up THEN m + 1 ELSE m
  IN IF m1 = 0 THEN F32(sign, 0)
     ELSE IF m1 < 8388608 THEN F32(sign, m1)
     ELSE F32(sign, (n.e * 8388608) + (m1 - 8388608))

\* the float nearest to r * 2^(e - 153), ties to even, with sign sign
RoundPack(sign, r, e) ==
  CHOOSE f \in {Pack(sign, Normal(rv, ev)) : rv \in {r}, ev \in {e}} : TRUE

\* |x| - |y| for |x| >= |y|
SubMag(sign, x, y) ==
  RoundPack(sign, (Mant(x.b) * 8) - ShrSticky(Mant(y.b) * 8, Expo(x.b) - Expo(y.b)),
            Expo(x.b))

\* x - y and x + y for finite x >= 0 and y >= 0
f32_sub(x, y) ==
  CHOOSE f \in {IF u.b >= v.b THEN SubMag(0, u, v) ELSE SubMag(1, v, u) :
                  u \in {x}, v \in {y}} : TRUE
f32_add(x, y) ==
  CHOOSE f \in {IF u.b >= v.b
                  THEN RoundPack(0, (Mant(u.b) * 8)
                                      + ShrSticky(Mant(v.b) * 8, Expo(u.b) - Expo(v.b)),
                                 Expo(u.b))
                  ELSE RoundPack(0, (Mant(v.b) * 8)
                                      + ShrSticky(Mant(u.b) * 8, Expo(v.b) - Expo(u.b)),
                                 Expo(v.b)) :
                  u \in {x}, v \in {y}} : TRUE

RECURSIVE OddPart(_)
OddPart(n) == IF n % 2 = 0 THEN OddPart(n \div 2) ELSE n
RECURSIVE TwoPart(_)
TwoPart(n) == IF n % 2 = 0 THEN 1 + TwoPart(n \div 2) ELSE 0

\* q with its lowest bit set if the division that gave it left a rest
Sticky(q, rest) == IF rest # 0 THEN ((q \div 2) * 2) + 1 ELSE q

\* m * 2^(e - 150) / (odd * 2^k), from 27 bits or more of the quotient
DivMant(m, e, odd, k) ==
  IF (m * 128) \div odd >= 67108864
    THEN RoundPack(0, Sticky((m * 128) \div odd, (m * 128) % odd), e - 4 - k)
    ELSE RoundPack(0, Sticky((((m * 128) \div odd) * 8) + ((((m * 128) % odd) * 8) \div odd),
                             (((m * 128) % odd) * 8) % odd),
                   e - 7 - k)

\* x / n for finite x >= 0 and the float of the integer n = odd * 2^k, odd < 128
f32_div(x, n) ==
  CHOOSE f \in {DivMant(m, e, odd, k) :
                  m \in {Mant(x.b)}, e \in {Expo(x.b)},
                  odd \in {OddPart(n)}, k \in {TwoPart(n)}} : TRUE

(***************************************************************************)
(* dsp::Adsr (audio/dsp.h lines 9-55).  a_steps, d_steps and r_steps are   *)
(* std::max(1.0f, a_s * sr), (d_s * sr) and (r_s * sr), which are whole    *)
(* numbers for the parameters explored.                                    *)
(***************************************************************************)
\* const float eps = 1e-6f (line 34)
Eps == F32(0, 897988541)

\* Adsr::note_on(sr) (lines 19-24)
note_on(e) ==
  [e EXCEPT !.stage = "Attack", !.value = F32(0, 0), !.release_step = F32(0, 0)]

\* Adsr::note_off(sr) (lines 26-31)
note_off(e) ==
  IF e.stage = "Off" \/ e.stage = "Release" THEN e
  ELSE [e EXCEPT !.stage = "Release", !.release_step = f32_div(e.value, e.r_steps)]

\* the decrement of a tick in Release (line 49)
release_decMutant(e) == f32_div(Float.one, e.r_steps)

release_dec(e) ==
  IF FLt(Float.zero, e.release_step) THEN e.release_step
  ELSE f32_div(Float.one, e.r_steps)

\* switch (stage) of Adsr::tick (lines 35-53)
tick_stage(e) ==
  CASE e.stage = "Attack" ->
         LET v == f32_add(e.value, f32_div(Float.one, e.a_steps))
         IN IF ~FLt(v, Float.one) THEN [e EXCEPT !.value = Float.one, !.stage = "Decay"]
            ELSE [e EXCEPT !.value = v]
    [] e.stage = "Decay" ->
         LET v == f32_sub(e.value, f32_div(f32_sub(Float.one, e.s_level), e.d_steps))
         IN IF ~FLt(e.s_level, v) THEN [e EXCEPT !.value = e.s_level, !.stage = "Sustain"]
            ELSE [e EXCEPT !.value = v]
    [] e.stage = "Sustain" -> e
    [] e.stage = "Release" ->
         LET v == f32_sub(e.value, release_dec(e))
         IN IF ~FLt(Eps, v) THEN [e EXCEPT !.value = F32(0, 0), !.stage = "Off"]
            ELSE [e EXCEPT !.value = v]
    [] OTHER -> [e EXCEPT !.value = F32(0, 0)]

\* Adsr::tick(sr) (lines 33-54)
adsr_tick(e) ==
  CHOOSE r \in {tick_stage(v) : v \in {e}} : TRUE

(***************************************************************************)
(* One envelope: note_on, note_off and tick called in any order.           *)
(***************************************************************************)
notAdsr == <<notLate, bank, thr, snap, sink, race>>

\* note_on calls explored
MaxAdsrNotes == 1

\* the parameters explored: a_s = d_s = 0.01, s = 0.5, r_s = 0.02 at sr = 1000; a
\* release of 16384 samples from a sustain level of 0.55; times below one sample
AdsrConfigs ==
  { [a_steps |-> 10, d_steps |-> 10, r_steps |-> 20, s_level |-> Float.half],
    [a_steps |-> 4, d_steps |-> 2, r_steps |-> 16384, s_level |-> F32(0, 1057803469)],
    [a_steps |-> 1, d_steps |-> 1, r_steps |-> 1, s_level |-> Float.half] }

EInit ==
  /\ EarlyParked /\ LateParkedBut("adsr")
  /\ \E c \in AdsrConfigs :
       adsr = [AdsrOff EXCEPT !.a_steps = c.a_steps, !.d_steps = c.d_steps,
                              !.r_steps = c.r_steps, !.s_level = c.s_level]

AdsrNoteOn ==
  /\ adsr.notes < MaxAdsrNotes
  /\ adsr' = [note_on(adsr) EXCEPT !.op = "note_on", !.before = adsr.stage,
                                   !.notes = @ + 1, !.ticks = 0, !.v0 = F32(0, 0)]
  /\ UNCHANGED notAdsr

AdsrNoteOff ==
  /\ adsr' = [note_off(adsr) EXCEPT
                !.op = "note_off", !.before = adsr.stage,
                !.v0 = IF adsr.stage \in {"Attack", "Decay", "Sustain"}
                         THEN adsr.value ELSE @,
                !.ticks = IF adsr.stage \in {"Attack", "Decay", "Sustain"} THEN 0 ELSE @]
  /\ UNCHANGED notAdsr

AdsrTick ==
  /\ adsr' = [adsr_tick(adsr) EXCEPT
                !.op = "tick", !.before = adsr.stage,
                !.ticks = IF adsr.stage = "Release" THEN @ + 1 ELSE @]
  /\ UNCHANGED notAdsr

ENext == AdsrNoteOn \/ AdsrNoteOff \/ AdsrTick

SpecAdsr == EInit /\ [][ENext]_vars

\* note_off outside Attack, Decay and Sustain changes nothing of the envelope
NoteOffIdle ==
  (adsr'.op = "note_off" /\ adsr'.before \in {"Off", "Release"}) =>
    /\ adsr'.stage = adsr.stage /\ adsr'.value = adsr.value
    /\ adsr'.release_step = adsr.release_step

notBank == <<notLate, adsr, thr, snap, sink, race>>

\* notes pushed in one run
MaxBankNotes == 3

\* samples_until_release of the notes: released in Attack, in Decay, in Sustain
NoteSamples == {1, 4, 9}

\* the frames of one callback
BankFrames == {1, 2}

\* for (auto& v : voices) if (!v.active) { slot = &v; break; } (lines 299-302)
free_voice(vs) ==
  IF \E i \in 1..kMaxVoices : ~vs[i].active
    THEN CHOOSE i \in 1..kMaxVoices :
           ~vs[i].active /\ \A j \in 1..(i - 1) : vs[j].active
    ELSE 0

quietestMutant(vs) == 1

\* slot = &voices[0]; best = 1e9f; a voice replaces slot when its env.value is
\* below best (lines 303-310): the first voice of the least value
quietest(vs) ==
  CHOOSE i \in 1..kMaxVoices :
    /\ \A j \in 1..(i - 1) : FLt(vs[i].env.value, vs[j].env.value)
    /\ \A j \in (i + 1)..kMaxVoices : ~FLt(vs[j].env.value, vs[i].env.value)

pick_slot(vs) == IF free_voice(vs) # 0 THEN free_voice(vs) ELSE quietest(vs)

\* lines 312-320
assign_voice(vs, i, n) ==
  [vs EXCEPT ![i] = [active |-> TRUE, samples_until_release |-> n,
                     env |-> note_on(vs[i].env)]]

RECURSIVE intake(_, _, _)
\* while (q.pop(&ev)) { ... } (lines 293-321), with the slot of every note taken
intake(vs, q, log) ==
  IF q = <<>> THEN [voices |-> vs, log |-> log]
  ELSE CHOOSE r \in {intake(assign_voice(w, i, n), t,
                             Append(l, [slot |-> i, note |-> n, pre |-> w])) :
                        w \in {vs}, i \in {pick_slot(vs)}, n \in {Head(q)},
                        t \in {Tail(q)}, l \in {log}} : TRUE

voice_sampleMutant(v) ==
  IF ~v.active THEN v
  ELSE LET n == IF v.samples_until_release > 0 THEN v.samples_until_release - 1
                ELSE v.samples_until_release
           e == adsr_tick(v.env)
       IN [v EXCEPT !.samples_until_release = n, !.env = e,
                    !.active = (e.stage # "Off")]

\* one voice in one frame (lines 337-357)
voice_sample(v) ==
  IF ~v.active THEN v
  ELSE LET n == IF v.samples_until_release > 0 THEN v.samples_until_release - 1
                ELSE v.samples_until_release
           e == adsr_tick(IF n = 0 THEN note_off(v.env) ELSE v.env)
       IN [v EXCEPT !.samples_until_release = n, !.env = e,
                    !.active = (e.stage # "Off")]

\* for (auto& v : voices) ... of one frame (lines 337-365)
render_frame(vs) ==
  [i \in 1..kMaxVoices |-> CHOOSE r \in {voice_sample(v) : v \in {vs[i]}} : TRUE]

RECURSIVE render_frames(_, _)
\* for (i = 0; i < frames; i++) ... (lines 333-366)
render_frames(vs, frames) ==
  IF frames = 0 THEN vs
  ELSE CHOOSE r \in {render_frames(w, frames - 1) : w \in {render_frame(vs)}} : TRUE

BInit ==
  /\ EarlyParked /\ LateParkedBut("bank")
  /\ bank = BankOff

\* the sequencer pushes a note (AudioEngine::submit_note)
BankPush ==
  /\ bank.notes < MaxBankNotes
  /\ \E n \in NoteSamples :
       bank' = [bank EXCEPT !.q = Append(@, n), !.notes = @ + 1, !.op = "push"]
  /\ UNCHANGED notBank

\* AudioEngine::Impl::render (lines 287-372)
BankRender ==
  /\ \E frames \in BankFrames :
       \E r \in {intake(bank.voices, bank.q, <<>>)} :
         bank' = [bank EXCEPT !.voices = render_frames(r.voices, frames), !.q = <<>>,
                              !.op = "render", !.frames = frames,
                              !.log = r.log, !.mid = r.voices]
  /\ UNCHANGED notBank

BNext == BankPush \/ BankRender

\* the device calls render for as long as it runs
SpecVoice == BInit /\ [][BNext]_vars /\ WF_vars(BankRender)

ActiveVoices(vs) == Cardinality({i \in 1..kMaxVoices : vs[i].active})

\* the voices as they were when the k-th note of the last intake had its voice
AfterIntake(k) == IF k = Len(bank.log) THEN bank.mid ELSE bank.log[k + 1].pre

\* C32: a drained note goes to an inactive voice if there is one; if all voices
\* are active it steals one whose envelope value is the least of all; every
\* drained note gets a voice, at most kMaxVoices voices are active, and a whole
\* bank plus one note drained into an empty bank leaves every voice active
C32_InactiveFirstElseQuietest ==
  /\ \A k \in 1..Len(bank.log) :
       LET e == bank.log[k]
       IN /\ e.slot \in 1..kMaxVoices
          /\ (\E i \in 1..kMaxVoices : ~e.pre[i].active) => ~e.pre[e.slot].active
          /\ (\A i \in 1..kMaxVoices : e.pre[i].active) =>
               \A j \in 1..kMaxVoices :
                 ~FLt(e.pre[j].env.value, e.pre[e.slot].env.value)
          /\ AfterIntake(k)[e.slot].active
          /\ AfterIntake(k)[e.slot].samples_until_release = e.note
          /\ AfterIntake(k)[e.slot].env.stage = "Attack"
          /\ \A j \in 1..kMaxVoices \ {e.slot} : AfterIntake(k)[j] = e.pre[j]
  /\ ActiveVoices(bank.mid) <= kMaxVoices /\ ActiveVoices(bank.voices) <= kMaxVoices
  /\ (Len(bank.log) = kMaxVoices + 1 /\ ActiveVoices(bank.log[1].pre) = 0) =>
       ActiveVoices(bank.mid) = kMaxVoices

\* with every voice sounding, the first louder than the last, a note stole the last
C32_Witness ==
  /\ bank.op = "render" /\ Len(bank.log) = 1
  /\ \A i \in 1..kMaxVoices : bank.log[1].pre[i].active
  /\ bank.log[1].slot = kMaxVoices
  /\ FLt(bank.log[1].pre[kMaxVoices].env.value, bank.log[1].pre[1].env.value)

StageRank(s) ==
  CASE s = "Attack" -> 0 [] s = "Decay" -> 1 [] s = "Sustain" -> 2
    [] s = "Release" -> 3 [] OTHER -> 4

\* the step is a render that gave voice i a note
Retriggered(i) ==
  bank'.op = "render" /\ \E k \in 1..Len(bank'.log) : bank'.log[k].slot = i

\* C34: an active voice becomes inactive; it is active exactly while its envelope
\* is not Off; once samples_until_release is 0 it is in Release; and unless a note
\* is assigned to it, samples_until_release counts down by the frames rendered,
\* its stage never goes back in Attack, Decay, Sustain, Release, Off, and an
\* inactive voice stays as it is
C34_VoiceEnds ==
  /\ \A i \in 1..kMaxVoices : bank.voices[i].active ~> ~bank.voices[i].active
  /\ [](\A i \in 1..kMaxVoices :
          /\ bank.voices[i].active <=> bank.voices[i].env.stage # "Off"
          /\ (bank.voices[i].active /\ bank.voices[i].samples_until_release = 0) =>
               bank.voices[i].env.stage = "Release")
  /\ [][\A i \in 1..kMaxVoices :
          ~Retriggered(i) =>
            /\ StageRank(bank'.voices[i].env.stage) >= StageRank(bank.voices[i].env.stage)
            /\ ~bank.voices[i].active => bank'.voices[i] = bank.voices[i]
            /\ (bank.voices[i].active /\ bank'.op = "render") =>
                 bank'.voices[i].samples_until_release =
                   IF bank.voices[i].samples_until_release > bank'.frames
                     THEN bank.voices[i].samples_until_release - bank'.frames ELSE 0]_vars

\* a voice that was in Release when the callback began is inactive at its end
C34_Witness ==
  /\ bank.op = "render" /\ bank.log = <<>>
  /\ bank.mid[1].active /\ bank.mid[1].env.stage = "Release"
  /\ ~bank.voices[1].active /\ bank.voices[1].env.stage = "Off"

(***************************************************************************)
(* The OSC throttle of the sequencer (app.cpp App::music_loop, lines       *)
(* 310-322).  The two counters are uint32_t; here they have TickBits       *)
(* bits, so that they wrap within a run.                                   *)
(***************************************************************************)
notThrottle == <<notLate, adsr, bank, snap, sink, race>>

\* the width of osc_signal_tick and osc_metrics_tick
TickBits == 4

\* ticks with OSC on in one run
MaxOscTicks == 18

\* the names of the five signals (lines 313-317)
SignalNames == <<"exec", "rx", "tx", "csw", "io">>

signal_dueMutant(t) == t % 2 = 0

\* (osc_signal_tick & 3u) == 0u (line 312)
signal_due(t) == t % 4 = 0

\* (osc_metrics_tick & 7u) == 0u (line 319)
metrics_due(t) == t % 8 = 0

\* t++ of a counter of TickBits bits
next_tick(t) == (t + 1) % TwoTo(TickBits)

\* the messages of one tick (lines 310-322)
osc_messages(t) ==
  (IF signal_due(t.osc_signal_tick)
     THEN [i \in 1..5 |-> [address |-> "/khor/signal", arg |-> SignalNames[i]]]
     ELSE <<>>)
  \o (IF metrics_due(t.osc_metrics_tick)
        THEN <<[address |-> "/khor/metrics", arg |-> "rates"]>> ELSE <<>>)

HInit ==
  /\ EarlyParked /\ LateParkedBut("thr")
  /\ thr = ThrottleOff

\* api_put_config or the start of the app: the stored enable_osc and the state of
\* the client as the next tick finds them
OscSwitch ==
  /\ \E e \in BOOLEAN, r \in BOOLEAN :
       /\ <<e, r>> # <<thr.enable_osc, thr.running>>
       /\ thr' = [thr EXCEPT !.enable_osc = e, !.running = r, !.op = "config"]
  /\ UNCHANGED notThrottle

\* one pass of the loop of music_loop, its OSC part (lines 310-322)
MusicTickOsc ==
  /\ thr.on_ticks < MaxOscTicks
  /\ IF thr.enable_osc /\ thr.running
       THEN thr' = [thr EXCEPT !.osc_signal_tick = next_tick(@),
                               !.osc_metrics_tick = next_tick(@),
                               !.on_ticks = @ + 1, !.op = "tick", !.was_on = TRUE,
                               !.sent = osc_messages(thr)]
       ELSE thr' = [thr EXCEPT !.op = "tick", !.was_on = FALSE, !.sent = <<>>]
  /\ UNCHANGED notThrottle

HNext == OscSwitch \/ MusicTickOsc

SpecThrottle == HInit /\ [][HNext]_vars

Addresses(msgs) == [i \in 1..Len(msgs) |-> msgs[i].address]
SignalsOf(msgs) == SelectSeq(msgs, LAMBDA m : m.address = "/khor/signal")
MetricsOf(msgs) == SelectSeq(msgs, LAMBDA m : m.address = "/khor/metrics")

\* C35: of the ticks with OSC enabled and running, numbered from 0, those whose
\* number is a multiple of 4 send the five signals exec, rx, tx, csw, io and the
\* others send no signal; those whose number is a multiple of 8 send one
\* /khor/metrics and the others none; a tick with OSC disabled or not running
\* sends nothing and leaves both counters as they were
C35_ThrottleEvery4thAnd8th ==
  /\ [](thr.op = "tick" /\ thr.was_on =>
          /\ [i \in 1..Len(SignalsOf(thr.sent)) |-> SignalsOf(thr.sent)[i].arg]
               = IF (thr.on_ticks - 1) % 4 = 0 THEN SignalNames ELSE <<>>
          /\ Len(MetricsOf(thr.sent)) = IF (thr.on_ticks - 1) % 8 = 0 THEN 1 ELSE 0
          /\ Len(thr.sent) = Len(SignalsOf(thr.sent)) + Len(MetricsOf(thr.sent)))
  /\ [](thr.op = "tick" /\ ~thr.was_on => thr.sent = <<>>)
  /\ [][(thr'.op = "tick" /\ ~thr'.was_on) =>
          /\ thr'.osc_signal_tick = thr.osc_signal_tick
          /\ thr'.osc_metrics_tick = thr.osc_metrics_tick]_vars
  /\ [][(thr'.op = "tick" /\ thr'.was_on) => thr.enable_osc /\ thr.running]_vars

\* the 17th tick with OSC on, after the counters wrapped and after ticks with OSC
\* off, sent the five signals and the metrics
C35_Witness ==
  /\ thr.op = "tick" /\ thr.was_on /\ thr.on_ticks = 17 /\ Len(thr.sent) = 6
  /\ thr.osc_signal_tick = 17 % TwoTo(TickBits)

(***************************************************************************)
(* The signal snapshot (app.cpp): sampler_loop publishes last_rates_ and   *)
(* last_v01_ under sig_mu_ (lines 241-246), music_loop copies them under   *)
(* sig_mu_ (lines 276-282) and then ticks the engine and sends (283-322).  *)
(* Each access of a shared field is a step of its own.                     *)
(***************************************************************************)
notSnap == <<notLate, adsr, bank, thr, sink, race>>

\* passes of sampler_loop
MaxSnapUpdates == 3

may_lockMutant(mu) == TRUE

\* std::scoped_lock lk(sig_mu_) returns when the mutex is free
may_lock(mu) == mu = "free"

PInit ==
  /\ EarlyParked /\ LateParkedBut("snap")
  /\ snap = SnapOff

\* line 242
SamplerLock ==
  /\ snap.sampler = "idle" /\ snap.version < MaxSnapUpdates /\ may_lock(snap.mu)
  /\ snap' = [snap EXCEPT !.mu = "sampler", !.sampler = "update"]
  /\ UNCHANGED notSnap

\* signals_.update(t, dt_s, smoothing) (line 243)
SamplerUpdate ==
  /\ snap.sampler = "update"
  /\ snap' = [snap EXCEPT !.version = @ + 1, !.sampler = "rates"]
  /\ UNCHANGED notSnap

\* last_rates_ = signals_.rates() (line 244)
SamplerRates ==
  /\ snap.sampler = "rates"
  /\ snap' = [snap EXCEPT !.last_rates = snap.version, !.sampler = "v01"]
  /\ UNCHANGED notSnap

\* last_v01_ = signals_.value01() (line 245)
SamplerV01 ==
  /\ snap.sampler = "v01"
  /\ snap' = [snap EXCEPT !.last_v01 = snap.version, !.sampler = "unlock"]
  /\ UNCHANGED notSnap

\* line 246
SamplerUnlock ==
  /\ snap.sampler = "unlock"
  /\ snap' = [snap EXCEPT !.mu = IF @ = "sampler" THEN "free" ELSE @,
                          !.sampler = "idle"]
  /\ UNCHANGED notSnap

\* line 279
MusicLock ==
  /\ snap.music = "idle" /\ may_lock(snap.mu)
  /\ snap' = [snap EXCEPT !.mu = "music", !.music = "v01"]
  /\ UNCHANGED notSnap

\* s01 = last_v01_ (line 280)
MusicV01 ==
  /\ snap.music = "v01"
  /\ snap' = [snap EXCEPT !.s01 = snap.last_v01, !.music = "rates"]
  /\ UNCHANGED notSnap

\* rates = last_rates_ (line 281)
MusicRates ==
  /\ snap.music = "rates"
  /\ snap' = [snap EXCEPT !.rates = snap.last_rates, !.music = "unlock"]
  /\ UNCHANGED notSnap

\* line 282
MusicUnlock ==
  /\ snap.music = "unlock"
  /\ snap' = [snap EXCEPT !.mu = IF @ = "music" THEN "free" ELSE @, !.music = "tick"]
  /\ UNCHANGED notSnap

\* engine.tick(s01, mc) and the sends, send_metrics(rates) among them (lines 284-322)
MusicTickSends ==
  /\ snap.music = "tick"
  /\ snap' = [snap EXCEPT !.used = [s01 |-> snap.s01, rates |-> snap.rates],
                          !.ticked = TRUE, !.music = "idle"]
  /\ UNCHANGED notSnap

PNext ==
  \/ SamplerLock \/ SamplerUpdate \/ SamplerRates \/ SamplerV01 \/ SamplerUnlock
  \/ MusicLock \/ MusicV01 \/ MusicRates \/ MusicUnlock \/ MusicTickSends

SpecSnap == PInit /\ [][PNext]_vars

\* C36: the Signal01 and the SignalRates that a tick of the sequencer uses are of
\* the same sampler update, and the sequencer holds sig_mu_ only in its two copies
C36_SnapshotOfOneUpdate ==
  /\ snap.used.s01 = snap.used.rates
  /\ snap.music = "tick" => snap.s01 = snap.rates
  /\ snap.mu = "music" <=> snap.music \in {"v01", "rates", "unlock"}
  /\ snap.music \in {"tick", "idle"} => snap.mu # "music"

\* the sequencer ticked with the pair of the second update while the sampler,
\* waiting for the mutex no longer, is publishing the third
C36_Witness ==
  /\ snap.ticked /\ snap.used = [s01 |-> 2, rates |-> 2]
  /\ snap.sampler = "v01" /\ snap.last_rates = 3 /\ snap.last_v01 = 2

(***************************************************************************)
(* A sink under a sender and a restart (the OSC client: osc/osc.cpp lines  *)
(* 136-151, app.cpp lines 303, 533 and 640-647).  The sender is music_loop *)
(* or api_test_note; the restart is api_put_config, which holds osc_mu_.   *)
(* Each read and write of impl_->fd is a step of its own.                  *)
(***************************************************************************)
notSink == <<notLate, adsr, bank, thr, snap, race>>

\* restarts of the client in one run
MaxRestarts == 2

\* the descriptor socket() returns
OscFd == [n |-> 3]

\* the client is running, as App::start leaves it with enable_osc
XInit ==
  /\ EarlyParked /\ LateParkedBut("sink")
  /\ sink = [SinkOff EXCEPT !.fd = OscFd.n, !.open = TRUE]

\* cfg.enable_osc && osc_.is_running() (app.cpp line 303 or 533)
SendCheck ==
  /\ sink.sender = "idle"
  /\ \E w \in {"music_loop", "api_test_note"} :
       sink' = [sink EXCEPT !.who = w,
                            !.sender = IF sink.fd >= 0 THEN "is_running" ELSE "idle"]
  /\ UNCHANGED notSink

\* if (!is_running()) return; of OscClient::send_note (osc.cpp line 147)
SendIsRunning ==
  /\ sink.sender = "is_running"
  /\ sink' = [sink EXCEPT !.sender = IF sink.fd >= 0 THEN "sendto" ELSE "idle"]
  /\ UNCHANGED notSink

\* ::sendto(impl_->fd, ...) (osc.cpp line 149)
SendTo ==
  /\ sink.sender = "sendto"
  /\ sink' = [sink EXCEPT !.sender = "idle",
                          !.bad = @ \/ sink.fd < 0 \/ ~sink.open]
  /\ UNCHANGED notSink

\* std::scoped_lock lk(osc_mu_) of api_put_config (app.cpp line 641); senders take
\* no lock
CtlLock ==
  /\ sink.ctl = "idle" /\ sink.mu = "free" /\ sink.restarts < MaxRestarts
  /\ sink' = [sink EXCEPT !.mu = "api_put_config", !.ctl = "close",
                          !.restarts = @ + 1]
  /\ UNCHANGED notSink

\* if (impl_->fd >= 0) ::close(impl_->fd) (osc.cpp line 138)
CtlClose ==
  /\ sink.ctl = "close"
  /\ sink' = [sink EXCEPT !.open = FALSE, !.ctl = "clear"]
  /\ UNCHANGED notSink

\* impl_->fd = -1 (osc.cpp line 139)
CtlClear ==
  /\ sink.ctl = "clear"
  /\ sink' = [sink EXCEPT !.fd = -1, !.ctl = "start"]
  /\ UNCHANGED notSink

\* if (next.enable_osc) start_osc_locked(next) (app.cpp line 646), which may fail,
\* and the end of the block
CtlStart ==
  /\ sink.ctl = "start"
  /\ \E up \in BOOLEAN :
       sink' = [sink EXCEPT !.fd = IF up THEN OscFd.n ELSE -1,
                            !.open = up, !.mu = "free", !.ctl = "idle"]
  /\ UNCHANGED notSink

XNext ==
  \/ SendCheck \/ SendIsRunning \/ SendTo
  \/ CtlLock \/ CtlClose \/ CtlClear \/ CtlStart

SpecSink == XInit /\ [][XNext]_vars

\* C37: a send does not overlap a stop or start of its sink: while a sender is
\* between its test of is_running and the end of its sendto no other thread is
\* stopping or starting the client, the descriptor it uses is open, and no
\* sendto was ever made on a closed descriptor
C37_SendNeverOverlapsStop ==
  /\ sink.sender = "sendto" => (sink.ctl = "idle" /\ sink.fd >= 0 /\ sink.open)
  /\ ~sink.bad

(***************************************************************************)
(* Two control operations on two HTTP worker threads (app.cpp              *)
(* api_put_config 581-698, api_select_preset 480-513, api_audio_set_device *)
(* 559-579).  cfg_mu_ is held for the copy of a snapshot and for the store *)
(* of cfg_, each a step; what an operation does in between is a step too.  *)
(***************************************************************************)
notRace == <<notLate, adsr, bank, thr, snap, sink>>

\* the two workers
HttpWorkers == {1, 2}

\* the requests explored
ControlRequests == {"put_bpm", "put_enable_osc", "select_drone", "set_device"}

\* the config an operation means to store, from its snapshot
next_config(r, c) ==
  CASE r = "put_bpm" -> [c EXCEPT !.bpm = 90]
    [] r = "put_enable_osc" -> [c EXCEPT !.enable_osc = TRUE]
    [] r = "select_drone" -> [c EXCEPT !.preset = "drone", !.density = 10]
    [] OTHER -> [c EXCEPT !.audio_device = "hw:1"]

RInit ==
  /\ EarlyParked /\ LateParkedBut("race")
  /\ race = RaceOff

\* a request arrives at an idle worker
RaceBegin(w) ==
  /\ race.pc[w] = "idle"
  /\ \E r \in ControlRequests :
       race' = [race EXCEPT !.req[w] = r, !.pc[w] = "snapshot"]
  /\ UNCHANGED notRace

\* KhorConfig prev = config_snapshot(); next = prev; and the change
\* (lines 589-597, 486-501, 560-562)
RaceSnapshot(w) ==
  /\ race.pc[w] = "snapshot"
  /\ race' = [race EXCEPT
                !.prev[w] = race.cfg, !.next[w] = next_config(race.req[w], race.cfg),
                !.pc[w] = IF race.req[w] \in {"put_bpm", "put_enable_osc"}
                            THEN "apply" ELSE "store"]
  /\ UNCHANGED notRace

\* api_put_config: the live atomics and the OSC client (lines 604-648)
RaceApply(w) ==
  /\ race.pc[w] = "apply"
  /\ race' = [race EXCEPT
                !.bpm = race.next[w].bpm, !.density = race.next[w].density,
                !.osc_running = IF race.prev[w].enable_osc # race.next[w].enable_osc
                                  THEN race.next[w].enable_osc ELSE @,
                !.pc[w] = "store"]
  /\ UNCHANGED notRace

\* cfg_ = next under cfg_mu_ (lines 685-688, 504-507, 564-567)
RaceStore(w) ==
  /\ race.pc[w] = "store"
  /\ race' = [race EXCEPT
                !.cfg = race.next[w],
                !.pc[w] = IF race.req[w] \in {"put_bpm", "put_enable_osc"}
                            THEN "done" ELSE "live"]
  /\ UNCHANGED notRace

\* density_.store(next.density) of api_select_preset and api_audio_set_device
\* (lines 508-509, 570-571)
RaceLive(w) ==
  /\ race.pc[w] = "live"
  /\ race' = [race EXCEPT !.density = race.next[w].density, !.pc[w] = "done"]
  /\ UNCHANGED notRace

RNext ==
  \E w \in HttpWorkers :
    RaceBegin(w) \/ RaceSnapshot(w) \/ RaceApply(w) \/ RaceStore(w) \/ RaceLive(w)

SpecRace == RInit /\ [][RNext]_vars

\* C38: when both operations have returned, cfg_ is what one of them after the other
\* would have stored, the live bpm and density are those of cfg_, and the OSC client
\* runs only if cfg_ enables it
C38_ControlOpsSerial ==
  (race.pc[1] = "done" /\ race.pc[2] = "done") =>
    /\ race.cfg \in {next_config(race.req[2], next_config(race.req[1], RaceOff.cfg)),
                     next_config(race.req[1], next_config(race.req[2], RaceOff.cfg))}
    /\ race.bpm = race.cfg.bpm /\ race.density = race.cfg.density
    /\ race.osc_running => race.cfg.enable_osc

(***************************************************************************)
(* App::start and App::stop called one after the other by the main thread, *)
(* checked under SpecApp.                                                  *)
(***************************************************************************)
\* the thread of a loop exists and has not returned
LoopLive(pc) == pc \notin {"none", "done"}

\* C39: with no start or stop in progress, a running app has its stop flag clear
\* and one live sampler and one live sequencer thread, and an app that is not
\* running has neither thread; the loops are spawned only when neither thread
\* exists; and a start of a running app or a stop of a stopped one changes nothing
C39_StartStopIdempotent ==
  /\ []((m_pc = "idle" /\ running_) =>
          /\ ~stop_ /\ music_ /\ sampler_
          /\ LoopLive(music_pc) /\ LoopLive(sampler_pc))
  /\ []((m_pc = "idle" /\ ~running_) =>
          /\ ~music_ /\ ~sampler_ /\ music_pc = "none" /\ sampler_pc = "none")
  /\ [][(m_pc = "start_loops" /\ m_pc' = "idle") =>
          /\ music_pc = "none" /\ sampler_pc = "none" /\ ~stop_
          /\ music_pc' = "check" /\ sampler_pc' = "check"]_vars
  /\ [][(m_pc = "idle" /\ m_pc' = "idle" /\ m_calls' = m_calls + 1) =>
          UNCHANGED <<running_, stop_, music_, sampler_, fake_, music_pc,
                      sampler_pc, fake_pc, midi_seq, osc_fd, bpf_ok, device_inited>>]_vars

\* the third call has returned, the app was started and is stopped, and no loop
\* thread is left
C39_Witness ==
  /\ m_calls = MaxMainCalls /\ m_pc = "idle" /\ started /\ ~running_ /\ stop_
  /\ music_pc = "none" /\ sampler_pc = "none" /\ ~music_ /\ ~sampler_

=============================================================================
